---- MODULE Spec2Model ----
(***************************************************************************)
(* Model of the vault job-coordination pipeline (services/models.go,       *)
(* services/worker.go, migrations/1_init.up.sql).                          *)
(*                                                                         *)
(* Time is counted in ticks of 5 s, the period of the dispatcher ticker,   *)
(* of the watchdog timer and of the progress flusher.  Every row keeps     *)
(* age = now() - updated_at in ticks (saturating once it no longer         *)
(* matters).  Every DB statement, every upstream call and every blob-store *)
(* call is one atomic step.  A statement sent to the database and a send   *)
(* or receive on the job channel take no time; the arrival of a client's   *)
(* request and the return of a call to the upstream API or to the blob     *)
(* store may take any number of ticks.                                     *)
(***************************************************************************)
EXTENDS Integers, Sequences, FiniteSets, TLC

\* ---- models.go: Status -------------------------------------------------
StatusQueuedForStoring == 0
StatusStoring == 1
StatusStored == 2
StatusStoreError == 3
StatusQueuedForDeletion == 4
StatusDeleting == 5
StatusDeleteError == 6

\* ---- bounds of the model -----------------------------------------------
JobsCap == 2        \* capacity of the job channel (1024 in NewWorker), scaled
MaxPut == 2         \* PUT calls of one resource id in one behaviour
MaxDel == 1         \* DELETE calls of one resource id in one behaviour
MaxFail == 1        \* failures of external calls injected in one behaviour
MaxTicks == 9       \* periods of 5 s in one behaviour
PairTicks == 4      \* periods of 5 s in a behaviour that stores two resources
SoloTicks == 6      \* periods of 5 s in a behaviour of the single worker
MaxCalls == 2       \* calls of one kind when only the handlers run
LiteTicks == 6      \* periods of 5 s in a behaviour of the short deployment

\* ---- program constants, in ticks of 5 s --------------------------------
DueTicks == 2       \* interval '10 seconds' of ListDue and of the File short-circuit

Ids == {"r1", "r2", "r3"}
Workers == {"w1", "w2"}
Clients == {"c1", "c2"}
NoId == "none"

\* net/http status codes of the responses
StatusAccepted == 202
StatusNotFound == 404
StatusInternalServerError == 500

ErrUpstream == "upstream error"
ErrBlob == "blob store error"
ErrCheck == "check constraint violated"
ErrMultiRows == "multiple rows in result set"
ErrForeignKey == "foreign key violation"

\* ---- upstream listing ---------------------------------------------------
\* One File item "c" of one byte-unit, identical in r1 and r2; r3 lists a
\* file of the same path and the same size whose bytes differ.
ItemC == [path |-> "c", size |-> 1, content |-> "x"]
ItemD == [path |-> "c", size |-> 1, content |-> "y"]
Listings == [r \in Ids |-> IF r = "r3" THEN <<ItemD>> ELSE <<ItemC>>]

\* generateFileHash, abstractly: the fingerprint is decided by the declared
\* size and by the content.
FileHash(item) == <<item.size, item.content>>
Hashes == {FileHash(Listings[r][i]) : r \in Ids, i \in 1..1}

\* ---- rows ----------------------------------------------------------------
NoResource == [present |-> FALSE, status |-> 0, total |-> 0, stored |-> 0, error |-> "", age |-> 0]
NoFile == [present |-> FALSE, status |-> 0, total |-> 0, stored |-> 0, path |-> "", age |-> 0]

\* CHECK (total_size >= 0), CHECK (stored_size >= 0 AND stored_size <= total_size)
\* a table without the CHECK constraints
Unchecked(r) == TRUE

RowOK(r) == r.total >= 0 /\ r.stored >= 0 /\ r.stored <= r.total

VARIABLES
  resource,       \* table resource: id -> row (committed version)
  file,           \* table file: hash -> row
  resource_file,  \* table resource_file: set of <<resource_id, file_hash, path>>
  blob,           \* object store: the keys that hold an object
  jobs,           \* the job channel
  disp,           \* the dispatcher goroutine (Serve/process/processResource)
  wk,             \* the worker goroutines, their watchdogs and flushers
  cl,             \* HTTP handlers in flight
  calls,          \* client calls still to come: op -> id -> number
  fails,          \* failures of external calls still to come
  tick,           \* the dispatcher ticker has fired and was not consumed
  ticks,          \* periods of 5 s still to come in the run
  cfg,            \* the deployment: the worker goroutines started by NewWorker
                  \* (flag "workers"), the resources found Stored in the
                  \* database, the calls and the failures the run begins with,
                  \* whether the run ends with Close
  closed,         \* Close has cancelled the context of the Worker (s.ctx)
  pager,          \* handleStore taken alone, over a listing of several pages
  hasher          \* generateFileHash taken alone: the file and the bytes hashed

vars == <<resource, file, resource_file, blob, jobs, disp, wk, cl, calls, fails, tick, ticks, cfg, closed, pager, hasher>>

\* the File struct f of storeFile
NoF == [hash |-> <<>>, status |-> 0, total |-> 0, stored |-> 0]

\* operation_type and status of a log row (models.go); a column that is null
OperationStore == 0
OperationDelete == 1
OperationSuccess == 0
OperationFail == 1
Null == -1

\* no row of the log table
NoLog == [op |-> Null, finished |-> FALSE, status |-> Null, error_text |-> ""]

\* LogOperationStart: the row inserted for a job of status s
LogOperationStart(s) ==
  [op |-> IF s = StatusDeleting THEN OperationDelete ELSE OperationStore,
   finished |-> FALSE, status |-> Null, error_text |-> ""]

\* LogOperationFinish on the row l with the error e of the job ("" for nil):
\* an update made with a cancelled context fails and leaves the row as it is
LogOperationFinish(l, cancelled, e) ==
  IF l = NoLog \/ cancelled THEN l
  ELSE [l EXCEPT !.finished = TRUE,
                 !.status = IF e = "" THEN OperationSuccess ELSE OperationFail,
                 !.error_text = e]

\* a worker; log is the row of the operation log that processJob opened for
\* the job in progress or, when idle, for the last job
IdleWorker ==
  [pc |-> "idle", log |-> NoLog, id |-> NoId, status |-> 0, cancelled |-> FALSE, wd |-> "off",
   err |-> "", idx |-> 0, totalSize |-> 0, totalStored |-> 0, f |-> NoF, stored |-> 0,
   fl |-> "off", fval |-> 0, fbase |-> 0, rfs |-> {}, rf |-> <<>>, fsize |-> 0]

IdleDisp == [pc |-> "idle", list |-> {}, changed |-> {}, lock |-> NoId, status |-> 0, seen |-> 0]

IdleClient == [pc |-> "idle", id |-> NoId, seen |-> 0, ret |-> NoResource, http |-> 0]

\* handleStore before it is called: the listing of the resource, the page
\* request (listArgs.Offset, resp.Items), the loop variables, the columns of
\* the Resource row, the offsets requested and the items visited so far
IdlePager ==
  [pc |-> "off", items |-> <<>>, offset |-> 0, resp |-> <<>>, i |-> 0,
   totalSize |-> 0, totalStored |-> 0, total |-> 0, stored |-> 0,
   status |-> StatusStoring, reqs |-> <<>>, seen |-> <<>>]

\* generateFileHash before it is called: item.Size, the bytes of the file and
\* the bytes written into the hash
IdleHasher == [pc |-> "off", size |-> 0, content |-> <<>>, input |-> <<>>]

\* a resource that an earlier run has stored: its row, the File row of each
\* listed item, the links and the objects
StoredResource(id) ==
  [present |-> TRUE, status |-> StatusStored, total |-> Listings[id][1].size,
   stored |-> Listings[id][1].size, error |-> "", age |-> 0]

StoredFile(item) ==
  [present |-> TRUE, status |-> StatusStored, total |-> item.size, stored |-> item.size,
   path |-> item.path, age |-> 0]

None == [r \in Ids |-> 0]
Times(id, n) == [r \in Ids |-> IF r = id THEN n ELSE 0]

\* the state after construction: the tables and the bucket as the earlier
\* run left them, an empty channel, idle goroutines
Start(workers, stored, put, del, nfails, nticks, close) ==
  /\ resource = [r \in Ids |-> IF r \in stored THEN StoredResource(r) ELSE NoResource]
  /\ file = [h \in Hashes |->
               IF \E r \in stored : FileHash(Listings[r][1]) = h
               THEN StoredFile(Listings[CHOOSE r \in stored : FileHash(Listings[r][1]) = h][1])
               ELSE NoFile]
  /\ resource_file = {<<r, FileHash(Listings[r][1]), Listings[r][1].path>> : r \in stored}
  /\ blob = {FileHash(Listings[r][1]) : r \in stored}
  /\ jobs = <<>>
  /\ disp = IdleDisp
  /\ wk = [w \in Workers |-> IdleWorker]
  /\ cl = [c \in Clients |-> IdleClient]
  /\ calls = [put |-> put, del |-> del]
  /\ fails = nfails
  /\ tick = FALSE
  /\ ticks = nticks
  /\ cfg = [workers |-> workers, stored |-> stored, put |-> put, del |-> del,
            fails |-> nfails, ticks |-> nticks, close |-> close,
            clients |-> {"c1"}]
  /\ closed = FALSE
  /\ pager = IdlePager
  /\ hasher = IdleHasher

\* the worker pool on an empty database: calls on one resource id, a failing
\* external call
StartPool ==
  Start(Workers, {}, Times("r1", MaxPut), Times("r1", MaxDel), MaxFail, MaxTicks, FALSE)

\* the worker pool on a database that holds r1 Stored: r1 is deleted, r2, which
\* lists the same file, may be stored
StartStored ==
  Start(Workers, {"r1"}, Times("r2", 1), Times("r1", MaxDel), 0, MaxTicks, FALSE)

\* the worker pool on an empty database: the two resources are stored
StartPair ==
  Start(Workers, {}, [r \in Ids |-> IF r \in {"r1", "r2"} THEN 1 ELSE 0], None, 0, PairTicks, FALSE)

\* one worker on a database that holds r1 Stored: r3, whose file has the path
\* and the size of r1's file and other bytes, is stored
StartAlias ==
  Start({"w1"}, {"r1"}, Times("r3", 1), None, 0, PairTicks, FALSE)

\* the worker pool on an empty database, over a short time: calls on one
\* resource id, a failing external call
StartLite ==
  Start(Workers, {}, Times("r1", MaxPut), Times("r1", MaxDel), MaxFail, LiteTicks, FALSE)

\* the rows an earlier run may have left for a resource id: as PUT inserts
\* them, or with sizes as a Store job sets them, in any status
Statuses ==
  {StatusQueuedForStoring, StatusStoring, StatusStored, StatusStoreError,
   StatusQueuedForDeletion, StatusDeleting, StatusDeleteError}

LeftRow(st, size) ==
  [present |-> TRUE, status |-> st, total |-> size, stored |-> size,
   error |-> IF st \in {StatusStoreError, StatusDeleteError} THEN ErrUpstream ELSE "",
   age |-> 0]

\* the HTTP handlers alone, on a database in which r1 has no row or a row of
\* any status, with or without its file stored and linked
StartHandlers(clients) ==
  \E st \in Statuses \cup {-1}, linked \in BOOLEAN :
    LET item == Listings["r1"][1]
        h == FileHash(item)
        put == Times("r1", MaxCalls)
        del == Times("r1", MaxCalls)
    IN /\ (st = -1) => ~linked
       /\ resource = [r \in Ids |->
                        IF r = "r1" /\ st # -1
                        THEN LeftRow(st, IF linked THEN item.size ELSE 0)
                        ELSE NoResource]
       /\ file = [g \in Hashes |-> IF linked /\ g = h THEN StoredFile(item) ELSE NoFile]
       /\ resource_file = IF linked THEN {<<"r1", h, item.path>>} ELSE {}
       /\ blob = IF linked THEN {h} ELSE {}
       /\ jobs = <<>>
       /\ disp = IdleDisp
       /\ wk = [w \in Workers |-> IdleWorker]
       /\ cl = [c \in Clients |-> IdleClient]
       /\ calls = [put |-> put, del |-> del]
       /\ fails = 0
       /\ tick = FALSE
       /\ ticks = 0
       /\ cfg = [workers |-> {}, stored |-> IF linked THEN {"r1"} ELSE {}, put |-> put,
                 del |-> del, fails |-> 0, ticks |-> 0, close |-> FALSE,
                 clients |-> clients]
       /\ closed = FALSE
       /\ pager = IdlePager
       /\ hasher = IdleHasher

\* the requests come one after the other
StartCalls == StartHandlers({"c1"})

\* the requests of two clients are served at the same time
StartRace == StartHandlers(Clients)

\* one worker on an empty database: one resource is PUT and the process is
\* shut down at some moment
StartClose ==
  Start({"w1"}, {}, Times("r1", 1), None, 0, PairTicks, TRUE)

\* one worker on an empty database: the three resources are PUT, so that the
\* dispatcher has more claims to push than the channel holds
StartTrio ==
  Start({"w1"}, {}, [r \in Ids |-> 1], None, 0, PairTicks, FALSE)

\* the worker pool started on the database of a process that was stopped while
\* a job for r1 was running: the row is Storing or Deleting, with or without
\* its file stored and linked; no client calls
StartLeft ==
  \E st \in {StatusStoring, StatusDeleting}, linked \in BOOLEAN :
    LET item == Listings["r1"][1]
        h == FileHash(item)
    IN /\ resource = [r \in Ids |->
                        IF r = "r1" THEN LeftRow(st, IF linked THEN item.size ELSE 0)
                        ELSE NoResource]
       /\ file = [g \in Hashes |-> IF linked /\ g = h THEN StoredFile(item) ELSE NoFile]
       /\ resource_file = IF linked THEN {<<"r1", h, item.path>>} ELSE {}
       /\ blob = IF linked THEN {h} ELSE {}
       /\ jobs = <<>>
       /\ disp = IdleDisp
       /\ wk = [w \in Workers |-> IdleWorker]
       /\ cl = [c \in Clients |-> IdleClient]
       /\ calls = [put |-> None, del |-> None]
       /\ fails = 0
       /\ tick = FALSE
       /\ ticks = MaxTicks
       /\ cfg = [workers |-> Workers, stored |-> IF linked THEN {"r1"} ELSE {}, put |-> None,
                 del |-> None, fails |-> 0, ticks |-> MaxTicks, close |-> FALSE,
                 clients |-> {"c1"}]
       /\ closed = FALSE
       /\ pager = IdlePager
       /\ hasher = IdleHasher

\* one worker on an empty database, over a longer time: two resources are
\* PUT and the dispatcher comes back to the rows that stay Storing
StartSolo ==
  Start({"w1"}, {}, [r \in Ids |-> IF r \in {"r1", "r2"} THEN 1 ELSE 0], None, 0, SoloTicks, FALSE)

Init ==
  StartPool \/ StartStored \/ StartPair \/ StartAlias \/ StartClose \/ StartLeft \/ StartSolo

\* ---- the database --------------------------------------------------------
\* A statement that writes a Resource row waits while the claim transaction
\* holds the row lock (SELECT ... FOR UPDATE of processResource).
Unlocked(id) == disp.lock # id

\* updated_at = seen updated_at of the claim: the trigger sets updated_at to
\* now() on every update and a listed row is older than 10 s, so the equality
\* holds exactly when the row was not written since the listing.
\* a table resource without the trigger that sets updated_at
Unstamped(id) == disp

Written(id) == IF disp.pc = "idle" THEN disp ELSE [disp EXCEPT !.changed = @ \cup {id}]

\* ON DELETE CASCADE of resource_file
CascadeResource(id) == {rf \in resource_file : rf[1] # id}
CascadeFile(h) == {rf \in resource_file : rf[2] # h}

\* ---- HTTP handlers (models.go) -------------------------------------------
\* ResourceQueueForStoring: the Select and what it decides
\* the handler has its result: the row (or none) and the status of the response
Responds(id, row, code) ==
  [IdleClient EXCEPT !.pc = "respond", !.id = id, !.ret = row, !.http = code]

PutSelect(c, id) ==
  /\ c \in cfg.clients
  /\ cl[c].pc = "idle"
  /\ calls.put[id] > 0
  /\ calls' = [calls EXCEPT !.put[id] = @ - 1]
  /\ LET r == resource[id] IN
       cl' = [cl EXCEPT ![c] =
                IF ~r.present THEN [IdleClient EXCEPT !.pc = "put_insert", !.id = id]
                ELSE IF r.status \in {StatusQueuedForStoring, StatusStoring, StatusStored}
                     THEN Responds(id, r, StatusAccepted)
                     ELSE [IdleClient EXCEPT !.pc = "put_update", !.id = id,
                                             !.seen = r.status]]
  /\ UNCHANGED <<resource, file, resource_file, blob, jobs, disp, wk, fails, tick, ticks, cfg, closed, pager, hasher>>

\* ResourceQueueForStoring: Insert (a duplicate key is returned as an error)
PutInsert(c) ==
  /\ cl[c].pc = "put_insert"
  /\ LET id == cl[c].id IN
       IF resource[id].present
       THEN /\ cl' = [cl EXCEPT ![c] = Responds(id, NoResource, StatusInternalServerError)]
            /\ UNCHANGED <<resource, disp>>
       ELSE /\ resource' = [resource EXCEPT ![id] =
                              [present |-> TRUE, status |-> StatusQueuedForStoring,
                               total |-> 0, stored |-> 0, error |-> "", age |-> 0]]
            /\ disp' = Written(id)
            /\ cl' = [cl EXCEPT ![c] = Responds(id, resource'[id], StatusAccepted)]
  /\ UNCHANGED <<file, resource_file, blob, jobs, wk, calls, fails, tick, ticks, cfg, closed, pager, hasher>>

\* ResourceQueueForStoring without its update
PutUpdateLost(c) ==
  /\ cl[c].pc = "put_update"
  /\ cl' = [cl EXCEPT ![c] = Responds(cl[c].id, resource[cl[c].id], StatusAccepted)]
  /\ UNCHANGED <<resource, file, resource_file, blob, jobs, disp, wk, calls, fails, tick,
                 ticks, cfg, closed, pager, hasher>>

\* ResourceQueueForStoring: Column("status").WherePK().Update() and the reload
PutUpdate(c) ==
  /\ cl[c].pc = "put_update"
  /\ LET id == cl[c].id IN
       /\ Unlocked(id)
       /\ IF resource[id].present
          THEN /\ resource' = [resource EXCEPT ![id].status = StatusQueuedForStoring,
                                                ![id].age = 0]
               /\ disp' = Written(id)
               /\ cl' = [cl EXCEPT ![c] = Responds(id, resource'[id], StatusAccepted)]
          ELSE /\ cl' = [cl EXCEPT ![c] = Responds(id, NoResource, StatusInternalServerError)]
               /\ UNCHANGED <<resource, disp>>
  /\ UNCHANGED <<file, resource_file, blob, jobs, wk, calls, fails, tick, ticks, cfg, closed, pager, hasher>>

\* ResourceQueueForDeletion: the Select and what it decides
DelSelect(c, id) ==
  /\ c \in cfg.clients
  /\ cl[c].pc = "idle"
  /\ calls.del[id] > 0
  /\ calls' = [calls EXCEPT !.del[id] = @ - 1]
  /\ LET r == resource[id] IN
       cl' = [cl EXCEPT ![c] =
                IF ~r.present THEN Responds(id, NoResource, StatusNotFound)
                ELSE IF r.status \in {StatusDeleting, StatusQueuedForDeletion}
                     THEN Responds(id, r, StatusAccepted)
                     ELSE IF r.status = StatusQueuedForStoring
                          THEN [IdleClient EXCEPT !.pc = "del_delete", !.id = id,
                                                  !.seen = r.status]
                          ELSE [IdleClient EXCEPT !.pc = "del_update", !.id = id,
                                                  !.seen = r.status]]
  /\ UNCHANGED <<resource, file, resource_file, blob, jobs, disp, wk, fails, tick, ticks, cfg, closed, pager, hasher>>

\* ResourceQueueForDeletion without its delete
DelDeleteLost(c) ==
  /\ cl[c].pc = "del_delete"
  /\ cl' = [cl EXCEPT ![c] = Responds(cl[c].id, NoResource, StatusNotFound)]
  /\ UNCHANGED <<resource, file, resource_file, blob, jobs, disp, wk, calls, fails, tick,
                 ticks, cfg, closed, pager, hasher>>

\* ResourceQueueForDeletion: WherePK().Delete() of a row seen QueuedForStoring
DelDelete(c) ==
  /\ cl[c].pc = "del_delete"
  /\ LET id == cl[c].id IN
       /\ Unlocked(id)
       /\ IF resource[id].present
          THEN /\ resource' = [resource EXCEPT ![id] = NoResource]
               /\ resource_file' = CascadeResource(id)
               /\ disp' = Written(id)
          ELSE UNCHANGED <<resource, resource_file, disp>>
  /\ cl' = [cl EXCEPT ![c] = Responds(cl[c].id, NoResource, StatusNotFound)]
  /\ UNCHANGED <<file, blob, jobs, wk, calls, fails, tick, ticks, cfg, closed, pager, hasher>>

\* ResourceQueueForDeletion: Column("status").WherePK().Update() and the reload
DelUpdate(c) ==
  /\ cl[c].pc = "del_update"
  /\ LET id == cl[c].id IN
       /\ Unlocked(id)
       /\ IF resource[id].present
          THEN /\ resource' = [resource EXCEPT ![id].status = StatusQueuedForDeletion,
                                                ![id].age = 0]
               /\ disp' = Written(id)
               /\ cl' = [cl EXCEPT ![c] = Responds(id, resource'[id], StatusAccepted)]
          ELSE /\ cl' = [cl EXCEPT ![c] = Responds(id, NoResource, StatusInternalServerError)]
               /\ UNCHANGED <<resource, disp>>
  /\ UNCHANGED <<file, resource_file, blob, jobs, wk, calls, fails, tick, ticks, cfg, closed, pager, hasher>>

\* putResource / deleteResource write the response: c.JSON, c.Status or the
\* error handler
respond(c) ==
  /\ cl[c].pc = "respond"
  /\ cl' = [cl EXCEPT ![c] = IdleClient]
  /\ UNCHANGED <<resource, file, resource_file, blob, jobs, disp, wk, calls, fails, tick,
                 ticks, cfg, closed, pager, hasher>>

\* ---- dispatcher (worker.go: Serve, process, processResource) -------------
\* ListDue: status != Stored and now() - updated_at > interval '10 seconds'
Due(id) ==
  /\ resource[id].present
  /\ resource[id].status # StatusStored
  /\ resource[id].age > DueTicks

\* the switch of processResource with its two cases exchanged
ExchangedStatus(st) ==
  IF st = StatusQueuedForDeletion THEN StatusStoring
  ELSE IF st = StatusQueuedForStoring THEN StatusDeleting
  ELSE 0

\* the switch of processResource; the zero value of Status is what a row of
\* any other status gets
ProcessingStatus(st) ==
  IF st = StatusQueuedForDeletion THEN StatusDeleting
  ELSE IF st = StatusQueuedForStoring THEN StatusStoring
  ELSE 0

\* process returns when the list is exhausted
Looping(d) == IF d.list = {} THEN IdleDisp ELSE [d EXCEPT !.pc = "loop"]

\* Serve takes a tick and process runs its query
process ==
  /\ disp.pc = "idle"
  /\ ~closed
  /\ tick
  /\ tick' = FALSE
  /\ disp' = Looping([IdleDisp EXCEPT !.list = {[id |-> id, status |-> resource[id].status] :
                                                  id \in {i \in Ids : Due(i)}}])
  /\ UNCHANGED <<resource, file, resource_file, blob, jobs, wk, cl, calls, fails, ticks, cfg, closed, pager, hasher>>

\* processResource: the transaction begins, SELECT ... FOR UPDATE with the
\* updated_at guard, and the status update inside the transaction
processResource ==
  /\ disp.pc = "loop"
  /\ \E r \in disp.list :
       IF ~closed /\ resource[r.id].present /\ r.id \notin disp.changed
       THEN disp' = [disp EXCEPT !.pc = "push", !.list = @ \ {r}, !.lock = r.id,
                                 !.status = ProcessingStatus(r.status), !.seen = r.status]
       ELSE disp' = Looping([disp EXCEPT !.list = @ \ {r}])
  /\ UNCHANGED <<resource, file, resource_file, blob, jobs, wk, cl, calls, fails, tick, ticks, cfg, closed, pager, hasher>>

\* processResource without the send of the job
processPushSkipped ==
  /\ disp.pc = "push"
  /\ disp' = [disp EXCEPT !.pc = "commit"]
  /\ UNCHANGED <<resource, file, resource_file, blob, jobs, wk, cl, calls, fails, tick,
                 ticks, cfg, closed, pager, hasher>>

\* processResource: the select of s.jobs <- job{...} and s.ctx.Done(), inside
\* the transaction; it blocks while the channel is full and the Worker is not
\* closed, and takes either case when both are ready
processPush ==
  /\ disp.pc = "push"
  /\ \/ /\ Len(jobs) < JobsCap
        /\ jobs' = Append(jobs, [status |-> disp.status, id |-> disp.lock])
     \/ /\ closed
        /\ UNCHANGED jobs
  /\ disp' = [disp EXCEPT !.pc = "commit"]
  /\ UNCHANGED <<resource, file, resource_file, blob, wk, cl, calls, fails, tick, ticks, cfg, closed, pager, hasher>>

\* RunInTransaction commits: the new status becomes visible, the lock is
\* released.  A COMMIT sent with the cancelled context of a closed Worker
\* takes effect or fails.
processCommit ==
  /\ disp.pc = "commit"
  /\ \/ resource' = [resource EXCEPT ![disp.lock].status = disp.status,
                                      ![disp.lock].age = 0]
     \/ closed /\ UNCHANGED resource
  /\ disp' = Looping([disp EXCEPT !.lock = NoId, !.status = 0, !.seen = 0])
  /\ UNCHANGED <<file, resource_file, blob, jobs, wk, cl, calls, fails, tick, ticks, cfg, closed, pager, hasher>>

\* Close: s.cancel().  The context of every job in progress is a child of
\* s.ctx and is cancelled with it.
Close ==
  /\ cfg.close
  /\ ~closed
  /\ closed' = TRUE
  /\ wk' = [w \in Workers |->
              IF wk[w].pc = "idle" THEN wk[w] ELSE [wk[w] EXCEPT !.cancelled = TRUE]]
  /\ UNCHANGED <<resource, file, resource_file, blob, jobs, disp, cl, calls, fails, tick,
                 ticks, cfg, pager, hasher>>

\* ---- workers (worker.go: workerLoop, processJob) -------------------------
\* the flusher goroutine when storeFile returns: a flusher waiting for its
\* next tick stops; a flush that has begun runs on
LeaveStoreFile(fl) == IF fl = "on" THEN "off" ELSE fl

\* handleStore / handleDelete return the error e; of the locals only what
\* handleError and a flush that has begun still read is kept
Failed(w, e) ==
  LET fl == LeaveStoreFile(wk[w].fl) IN
    [IdleWorker EXCEPT !.pc = "error", !.err = e, !.id = wk[w].id, !.status = wk[w].status,
                       !.wd = wk[w].wd, !.fl = fl, !.log = wk[w].log,
                       !.f = IF fl = "off" THEN NoF ELSE wk[w].f,
                       !.stored = IF fl = "off" THEN 0 ELSE wk[w].stored,
                       !.fval = IF fl = "off" THEN 0 ELSE wk[w].fval,
                       !.fbase = IF fl = "off" THEN 0 ELSE wk[w].fbase,
                       !.totalStored = IF fl = "off" THEN 0 ELSE wk[w].totalStored]

\* a call made with the cancelled context of the job fails; so do the writes
\* of handleError and of LogOperationFinish, and processJob returns
Aborted(w) == [IdleWorker EXCEPT !.log = wk[w].log]

\* processJob returns the error e: the deferred LogOperationFinish runs with
\* the context of the job
Done(w, e) ==
  [IdleWorker EXCEPT !.log = LogOperationFinish(wk[w].log, wk[w].cancelled, e)]

Item(w) == Listings[wk[w].id][wk[w].idx]

\* workerLoop receives a job; processJob starts the watchdog, opens the log
\* and switches on the job's status.  A job of any status but Storing and
\* Deleting runs no handler: processJob closes the log and returns.
workerLoop(w) ==
  /\ w \in cfg.workers
  /\ wk[w].pc = "idle"
  /\ jobs # <<>>
  /\ jobs' = Tail(jobs)
  /\ LET j == Head(jobs) IN
       wk' = [wk EXCEPT ![w] =
                IF closed THEN Aborted(w)
                ELSE IF j.status = StatusStoring
                THEN [IdleWorker EXCEPT !.id = j.id, !.status = j.status, !.wd = "armed",
                                        !.pc = "s_reset", !.log = LogOperationStart(j.status)]
                ELSE IF j.status = StatusDeleting
                THEN [IdleWorker EXCEPT !.id = j.id, !.status = j.status, !.wd = "armed",
                                        !.pc = "d_list", !.log = LogOperationStart(j.status)]
                ELSE [IdleWorker EXCEPT
                        !.log = LogOperationFinish(LogOperationStart(j.status), FALSE, "")]]
  /\ UNCHANGED <<resource, file, resource_file, blob, disp, cl, calls, fails, tick, ticks, cfg, closed, pager, hasher>>

\* jobCancelContext: the timer has fired; the row is read once
jobCancelContext(w) ==
  /\ wk[w].wd = "fired"
  /\ LET r == resource[wk[w].id] IN
       wk' = [wk EXCEPT ![w].wd = "spent",
                        ![w].cancelled = @ \/ ~(r.present /\ r.status = wk[w].status)]
  /\ UNCHANGED <<resource, file, resource_file, blob, jobs, disp, cl, calls, fails, tick, ticks, cfg, closed, pager, hasher>>

\* the call in flight to the upstream API or to the blob store was made with
\* the job's context: once the watchdog has cancelled it the call returns the
\* context's error
InFlight == {"s_list", "f_hash", "f_upload", "d_s3"}

callCancelled(w) ==
  /\ wk[w].cancelled
  /\ wk[w].pc \in InFlight
  /\ wk' = [wk EXCEPT ![w] = Aborted(w)]
  /\ UNCHANGED <<resource, file, resource_file, blob, jobs, disp, cl, calls, fails, tick, ticks, cfg, closed, pager, hasher>>

\* handleError writing with a context that is never cancelled
handleErrorDetached(w) ==
  /\ wk[w].pc = "error"
  /\ LET id == wk[w].id
         st == IF wk[w].status = StatusStoring THEN StatusStoreError ELSE StatusDeleteError
     IN IF ~resource[id].present
        THEN UNCHANGED <<resource, disp>>
        ELSE /\ disp.lock # id
             /\ resource' = [resource EXCEPT ![id].status = st, ![id].error = wk[w].err,
                                             ![id].age = 0]
             /\ disp' = [disp EXCEPT !.changed = IF disp.pc = "idle" THEN @ ELSE @ \cup {id}]
  /\ wk' = [wk EXCEPT ![w] = Done(w, wk[w].err)]
  /\ UNCHANGED <<file, resource_file, blob, jobs, cl, calls, fails, tick, ticks, cfg, closed, pager, hasher>>

\* processJob without its call of handleError
handleErrorSkipped(w) ==
  /\ wk[w].pc = "error"
  /\ wk' = [wk EXCEPT ![w] = Done(w, wk[w].err)]
  /\ UNCHANGED <<resource, file, resource_file, blob, jobs, disp, cl, calls, fails, tick,
                 ticks, cfg, closed, pager, hasher>>

\* handleError: the status and the message are written with the job's
\* context; processJob closes the log and returns
handleError(w) ==
  /\ wk[w].pc = "error"
  /\ LET id == wk[w].id
         st == IF wk[w].status = StatusStoring THEN StatusStoreError ELSE StatusDeleteError
     IN IF wk[w].cancelled \/ ~resource[id].present
        THEN UNCHANGED <<resource, disp>>
        ELSE /\ Unlocked(id)
             /\ resource' = [resource EXCEPT ![id].status = st, ![id].error = wk[w].err,
                                             ![id].age = 0]
             /\ disp' = Written(id)
  /\ wk' = [wk EXCEPT ![w] = Done(w, wk[w].err)]
  /\ UNCHANGED <<file, resource_file, blob, jobs, cl, calls, fails, tick, ticks, cfg, closed, pager, hasher>>

\* ---- handleStore ----------------------------------------------------------
\* reset of total_size and stored_size
storeReset(w) ==
  /\ wk[w].pc = "s_reset"
  /\ LET id == wk[w].id IN
       IF wk[w].cancelled
       THEN /\ wk' = [wk EXCEPT ![w] = Aborted(w)]
            /\ UNCHANGED <<resource, disp>>
       ELSE /\ Unlocked(id)
            /\ wk' = [wk EXCEPT ![w].pc = "s_list"]
            /\ IF resource[id].present
               THEN /\ resource' = [resource EXCEPT ![id].total = 0, ![id].stored = 0,
                                                     ![id].age = 0]
                    /\ disp' = Written(id)
               ELSE UNCHANGED <<resource, disp>>
  /\ UNCHANGED <<file, resource_file, blob, jobs, cl, calls, fails, tick, ticks, cfg, closed, pager, hasher>>

\* ListResourceContent returns
storeList(w) ==
  /\ wk[w].pc = "s_list"
  /\ ~wk[w].cancelled
  /\ \/ /\ fails > 0
        /\ fails' = fails - 1
        /\ wk' = [wk EXCEPT ![w] = Failed(w, ErrUpstream)]
     \/ /\ wk' = [wk EXCEPT ![w].idx = 1, ![w].totalSize = 0, ![w].totalStored = 0,
                            ![w].pc = IF Len(Listings[wk[w].id]) = 0 THEN "s_status"
                                      ELSE "s_total"]
        /\ UNCHANGED fails
  /\ UNCHANGED <<resource, file, resource_file, blob, jobs, disp, cl, calls, tick, ticks, cfg, closed, pager, hasher>>

\* total_size is raised by the item's size and written
storeTotal(w) ==
  /\ wk[w].pc = "s_total"
  /\ LET id == wk[w].id
         t == wk[w].totalSize + Item(w).size
     IN IF wk[w].cancelled
        THEN /\ wk' = [wk EXCEPT ![w] = Aborted(w)]
             /\ UNCHANGED <<resource, disp>>
        ELSE /\ Unlocked(id)
             /\ IF ~resource[id].present
                THEN /\ wk' = [wk EXCEPT ![w].totalSize = t, ![w].pc = "f_lookup1"]
                     /\ UNCHANGED <<resource, disp>>
                ELSE IF RowOK([resource[id] EXCEPT !.total = t])
                THEN /\ wk' = [wk EXCEPT ![w].totalSize = t, ![w].pc = "f_lookup1"]
                     /\ resource' = [resource EXCEPT ![id].total = t, ![id].age = 0]
                     /\ disp' = Written(id)
                ELSE /\ wk' = [wk EXCEPT ![w] = [Failed(w, ErrCheck) EXCEPT !.totalSize = t]]
                     /\ UNCHANGED <<resource, disp>>
  /\ UNCHANGED <<file, resource_file, blob, jobs, cl, calls, fails, tick, ticks, cfg, closed, pager, hasher>>

\* storeFile without its short-circuits
NoShortCircuit(row) == FALSE

\* f.Status == StatusStored || f.UpdatedAt.Add(10*time.Second).After(time.Now())
ShortCircuit(row) == row.status = StatusStored \/ row.age < DueTicks

FOf(h) == [hash |-> h, status |-> file[h].status, total |-> file[h].total,
           stored |-> file[h].stored]

\* of the File that storeFile returns, handleStore reads the hash only
Returned(f) == [NoF EXCEPT !.hash = f.hash]

\* once the row is inserted storeFile reads f.Hash and f.TotalSize only
Inserted(f) == [NoF EXCEPT !.hash = f.hash, !.total = f.total]

\* storeFile: the lookup by total_size and path
storeFileLookup1(w) ==
  /\ wk[w].pc = "f_lookup1"
  /\ LET it == Item(w)
         m == {h \in Hashes : file[h].present /\ file[h].total = it.size
                               /\ file[h].path = it.path}
         f0 == [hash |-> <<>>, status |-> StatusStoring, total |-> it.size, stored |-> 0]
         f1 == IF m = {} THEN f0 ELSE FOf(CHOOSE x \in m : TRUE)
     IN wk' = [wk EXCEPT ![w] =
                 IF wk[w].cancelled THEN Aborted(w)
                 ELSE IF Cardinality(m) > 1 THEN Failed(w, ErrMultiRows)
                 ELSE IF m # {} /\ ShortCircuit(file[f1.hash])
                      THEN [wk[w] EXCEPT !.f = Returned(f1), !.pc = "s_stored"]
                      ELSE [wk[w] EXCEPT !.f = f1, !.pc = "f_hash"]]
  /\ UNCHANGED <<resource, file, resource_file, blob, jobs, disp, cl, calls, fails, tick, ticks, cfg, closed, pager, hasher>>

\* storeFile: ExportResourceContent and generateFileHash return
storeFileHash(w) ==
  /\ wk[w].pc = "f_hash"
  /\ ~wk[w].cancelled
  /\ \/ /\ fails > 0
        /\ fails' = fails - 1
        /\ wk' = [wk EXCEPT ![w] = Failed(w, ErrUpstream)]
     \/ /\ wk' = [wk EXCEPT ![w].f.hash = FileHash(Item(w)), ![w].pc = "f_lookup2"]
        /\ UNCHANGED fails
  /\ UNCHANGED <<resource, file, resource_file, blob, jobs, disp, cl, calls, tick, ticks, cfg, closed, pager, hasher>>

\* storeFile: the lookup by hash
storeFileLookup2(w) ==
  /\ wk[w].pc = "f_lookup2"
  /\ LET h == wk[w].f.hash IN
       wk' = [wk EXCEPT ![w] =
                IF wk[w].cancelled THEN Aborted(w)
                ELSE IF ~file[h].present THEN [wk[w] EXCEPT !.pc = "f_insert"]
                ELSE IF ShortCircuit(file[h])
                     THEN [wk[w] EXCEPT !.f = Returned(FOf(h)), !.pc = "s_stored"]
                     ELSE [wk[w] EXCEPT !.f = FOf(h), !.pc = "f_insert"]]
  /\ UNCHANGED <<resource, file, resource_file, blob, jobs, disp, cl, calls, fails, tick, ticks, cfg, closed, pager, hasher>>

\* storeFile: Insert of the File row (a duplicate key is ignored); the
\* flusher goroutine starts
storeFileInsert(w) ==
  /\ wk[w].pc = "f_insert"
  /\ LET f == wk[w].f
         row == [present |-> TRUE, status |-> f.status, total |-> f.total,
                 stored |-> f.stored, path |-> Item(w).path, age |-> 0]
     IN IF wk[w].cancelled
        THEN /\ wk' = [wk EXCEPT ![w] = Aborted(w)]
             /\ UNCHANGED file
        ELSE IF file[f.hash].present
        THEN /\ wk' = [wk EXCEPT ![w].pc = "f_upload", ![w].stored = 0, ![w].fl = "on",
                                 ![w].fbase = wk[w].totalStored,
                                 ![w].f = Inserted(f)]
             /\ UNCHANGED file
        ELSE IF RowOK(row)
        THEN /\ wk' = [wk EXCEPT ![w].pc = "f_upload", ![w].stored = 0, ![w].fl = "on",
                                 ![w].fbase = wk[w].totalStored,
                                 ![w].f = Inserted(f)]
             /\ file' = [file EXCEPT ![f.hash] = row]
        ELSE /\ wk' = [wk EXCEPT ![w] = Failed(w, ErrCheck)]
             /\ UNCHANGED file
  /\ UNCHANGED <<resource, resource_file, blob, jobs, disp, cl, calls, fails, tick, ticks, cfg, closed, pager, hasher>>

\* storeFile: the progress reader hands one unit of the stream to the uploader
storeFileRead(w) ==
  /\ wk[w].pc = "f_upload"
  /\ ~wk[w].cancelled
  /\ wk[w].stored < Item(w).size
  /\ wk' = [wk EXCEPT ![w].stored = @ + 1]
  /\ UNCHANGED <<resource, file, resource_file, blob, jobs, disp, cl, calls, fails, tick, ticks, cfg, closed, pager, hasher>>

\* storeFile: Download and UploadWithContext end, with the object written or
\* with an error
storeFileUpload(w) ==
  /\ wk[w].pc = "f_upload"
  /\ ~wk[w].cancelled
  /\ \/ /\ fails > 0
        /\ fails' = fails - 1
        /\ wk' = [wk EXCEPT ![w] = Failed(w, ErrBlob)]
        /\ UNCHANGED blob
     \/ /\ wk[w].stored = Item(w).size
        /\ blob' = blob \cup {wk[w].f.hash}
        /\ wk' = [wk EXCEPT ![w].pc = "f_final"]
        /\ UNCHANGED fails
  /\ UNCHANGED <<resource, file, resource_file, jobs, disp, cl, calls, tick, ticks, cfg, closed, pager, hasher>>

\* storeFile: status = Stored and stored_size = total_size are written
storeFileFinal(w) ==
  /\ wk[w].pc = "f_final"
  /\ LET f == wk[w].f
         row == [file[f.hash] EXCEPT !.status = StatusStored, !.stored = f.total, !.age = 0]
     IN IF wk[w].cancelled
        THEN /\ wk' = [wk EXCEPT ![w] = Aborted(w)]
             /\ UNCHANGED file
        ELSE IF ~file[f.hash].present
        THEN /\ wk' = [wk EXCEPT ![w].pc = "s_stored", ![w].fl = LeaveStoreFile(@),
                                 ![w].f = Returned(f),
                                 ![w].stored = IF LeaveStoreFile(wk[w].fl) = "off" THEN 0 ELSE @,
                                 ![w].fbase = IF LeaveStoreFile(wk[w].fl) = "off" THEN 0 ELSE @]
             /\ UNCHANGED file
        ELSE IF RowOK(row)
        THEN /\ wk' = [wk EXCEPT ![w].pc = "s_stored", ![w].fl = LeaveStoreFile(@),
                                 ![w].f = Returned(f),
                                 ![w].stored = IF LeaveStoreFile(wk[w].fl) = "off" THEN 0 ELSE @,
                                 ![w].fbase = IF LeaveStoreFile(wk[w].fl) = "off" THEN 0 ELSE @]
             /\ file' = [file EXCEPT ![f.hash] = row]
        ELSE /\ wk' = [wk EXCEPT ![w] = Failed(w, ErrCheck)]
             /\ UNCHANGED file
  /\ UNCHANGED <<resource, resource_file, blob, jobs, disp, cl, calls, fails, tick, ticks, cfg, closed, pager, hasher>>

\* flush, first statement: File.stored_size = stored
flushFile(w) ==
  /\ wk[w].fl = "due"
  /\ LET h == wk[w].f.hash
         v == wk[w].stored
         row == [file[h] EXCEPT !.stored = v, !.age = 0]
         back == IF wk[w].pc \in {"f_upload", "f_final"} THEN "on" ELSE "off"
     IN IF wk[w].cancelled \/ (file[h].present /\ ~RowOK(row))
        THEN /\ wk' = [wk EXCEPT ![w].fl = back]
             /\ UNCHANGED file
        ELSE /\ wk' = [wk EXCEPT ![w].fl = "res", ![w].fval = v]
             /\ file' = IF file[h].present THEN [file EXCEPT ![h] = row] ELSE file
  /\ UNCHANGED <<resource, resource_file, blob, jobs, disp, cl, calls, fails, tick, ticks, cfg, closed, pager, hasher>>

\* flush, second statement: Resource.stored_size = totalStored + stored, with
\* the totalStored that storeFile was called with and the stored that flush
\* was called with
flushResource(w) ==
  /\ wk[w].fl = "res"
  /\ LET id == wk[w].id
         row == [resource[id] EXCEPT !.stored = wk[w].fbase + wk[w].fval, !.age = 0]
         back == IF wk[w].pc \in {"f_upload", "f_final"} THEN "on" ELSE "off"
     IN /\ wk' = [wk EXCEPT ![w].fl = back, ![w].fval = 0,
                            ![w].stored = IF back = "off" THEN 0 ELSE @,
                            ![w].fbase = IF back = "off" THEN 0 ELSE @]
        /\ IF wk[w].cancelled \/ ~resource[id].present
           THEN UNCHANGED <<resource, disp>>
           ELSE /\ Unlocked(id)
                /\ IF RowOK(row)
                   THEN resource' = [resource EXCEPT ![id] = row] /\ disp' = Written(id)
                   ELSE UNCHANGED <<resource, disp>>
  /\ UNCHANGED <<file, resource_file, blob, jobs, cl, calls, fails, tick, ticks, cfg, closed, pager, hasher>>

\* the flusher's select takes flushCtx.Done() although its ticker has fired
flushStop(w) ==
  /\ wk[w].fl = "due"
  /\ wk[w].pc \notin {"f_upload", "f_final"}
  /\ wk' = [wk EXCEPT ![w].fl = "off", ![w].stored = 0, ![w].fbase = 0]
  /\ UNCHANGED <<resource, file, resource_file, blob, jobs, disp, cl, calls, fails, tick, ticks, cfg, closed, pager, hasher>>

\* handleStore: stored_size = totalStored and error = '' are written
storeStored(w) ==
  /\ wk[w].pc = "s_stored"
  /\ LET id == wk[w].id
         t == wk[w].totalStored + Item(w).size
         row == [resource[id] EXCEPT !.stored = t, !.error = "", !.age = 0]
     IN IF wk[w].cancelled
        THEN /\ wk' = [wk EXCEPT ![w] = Aborted(w)]
             /\ UNCHANGED <<resource, disp>>
        ELSE /\ Unlocked(id)
             /\ IF ~resource[id].present
                THEN /\ wk' = [wk EXCEPT ![w].totalStored = t, ![w].pc = "s_link"]
                     /\ UNCHANGED <<resource, disp>>
                ELSE IF RowOK(row)
                THEN /\ wk' = [wk EXCEPT ![w].totalStored = t, ![w].pc = "s_link"]
                     /\ resource' = [resource EXCEPT ![id] = row]
                     /\ disp' = Written(id)
                ELSE /\ wk' = [wk EXCEPT ![w] = [Failed(w, ErrCheck) EXCEPT !.totalStored = t]]
                     /\ UNCHANGED <<resource, disp>>
  /\ UNCHANGED <<file, resource_file, blob, jobs, cl, calls, fails, tick, ticks, cfg, closed, pager, hasher>>

\* handleStore: Insert of the ResourceFile row (no context; a duplicate key is
\* skipped, a missing Resource or File row violates the foreign key), then the
\* next item or the end of the listing
storeLink(w) ==
  /\ wk[w].pc = "s_link"
  /\ LET id == wk[w].id
         h == wk[w].f.hash
         next == IF wk[w].idx < Len(Listings[id])
                 THEN [wk[w] EXCEPT !.idx = @ + 1, !.pc = "s_total"]
                 ELSE [wk[w] EXCEPT !.pc = "s_status"]
     IN /\ Unlocked(id)
        /\ IF ~resource[id].present \/ ~file[h].present
           THEN /\ wk' = [wk EXCEPT ![w] = Failed(w, ErrForeignKey)]
                /\ UNCHANGED resource_file
           ELSE /\ wk' = [wk EXCEPT ![w] = next]
                /\ resource_file' = resource_file \cup {<<id, h, Item(w).path>>}
  /\ UNCHANGED <<resource, file, blob, jobs, disp, cl, calls, fails, tick, ticks, cfg, closed, pager, hasher>>

\* handleStore: status = Stored is written
storeStatus(w) ==
  /\ wk[w].pc = "s_status"
  /\ LET id == wk[w].id IN
       IF wk[w].cancelled
       THEN /\ wk' = [wk EXCEPT ![w] = Aborted(w)]
            /\ UNCHANGED <<resource, disp>>
       ELSE /\ Unlocked(id)
            /\ wk' = [wk EXCEPT ![w] = Done(w, "")]
            /\ IF resource[id].present
               THEN /\ resource' = [resource EXCEPT ![id].status = StatusStored, ![id].age = 0]
                    /\ disp' = Written(id)
               ELSE UNCHANGED <<resource, disp>>
  /\ UNCHANGED <<file, resource_file, blob, jobs, cl, calls, fails, tick, ticks, cfg, closed, pager, hasher>>

\* ---- handleDelete ---------------------------------------------------------
\* after one ResourceFile: the next one, or the Resource row
DeleteNext(w) == [wk[w] EXCEPT !.rf = <<>>, !.fsize = 0,
                               !.pc = IF wk[w].rfs = {} THEN "d_res" ELSE "d_load"]

\* the ResourceFile rows of the resource are collected
deleteList(w) ==
  /\ wk[w].pc = "d_list"
  /\ LET rfs == {rf \in resource_file : rf[1] = wk[w].id} IN
       wk' = [wk EXCEPT ![w] =
                IF wk[w].cancelled THEN Aborted(w)
                ELSE [wk[w] EXCEPT !.rfs = rfs,
                                   !.pc = IF rfs = {} THEN "d_res" ELSE "d_load"]]
  /\ UNCHANGED <<resource, file, resource_file, blob, jobs, disp, cl, calls, fails, tick, ticks, cfg, closed, pager, hasher>>

\* the File row of the next ResourceFile is loaded
deleteLoad(w) ==
  /\ wk[w].pc = "d_load"
  /\ \E rf \in wk[w].rfs :
       wk' = [wk EXCEPT ![w] =
                IF wk[w].cancelled THEN Aborted(w)
                ELSE IF file[rf[2]].present
                     THEN [wk[w] EXCEPT !.rfs = @ \ {rf}, !.rf = rf,
                                        !.fsize = file[rf[2]].stored, !.pc = "d_dec"]
                     ELSE [wk[w] EXCEPT !.rfs = @ \ {rf}, !.rf = rf, !.pc = "d_count"]]
  /\ UNCHANGED <<resource, file, resource_file, blob, jobs, disp, cl, calls, fails, tick, ticks, cfg, closed, pager, hasher>>

\* stored_size = CASE WHEN stored_size >= ? THEN stored_size - ? ELSE 0 END
deleteDecrement(w) ==
  /\ wk[w].pc = "d_dec"
  /\ LET id == wk[w].id
         n == wk[w].fsize
     IN IF wk[w].cancelled
        THEN /\ wk' = [wk EXCEPT ![w] = Aborted(w)]
             /\ UNCHANGED <<resource, disp>>
        ELSE /\ Unlocked(id)
             /\ wk' = [wk EXCEPT ![w].pc = "d_count"]
             /\ IF resource[id].present
                THEN /\ resource' = [resource EXCEPT
                                       ![id].stored = IF @ >= n THEN @ - n ELSE 0,
                                       ![id].age = 0]
                     /\ disp' = Written(id)
                ELSE UNCHANGED <<resource, disp>>
  /\ UNCHANGED <<file, resource_file, blob, jobs, cl, calls, fails, tick, ticks, cfg, closed, pager, hasher>>

\* handleDelete with a count that finds no reference of another resource
deleteCountNone(w) ==
  /\ wk[w].pc = "d_count"
  /\ wk' = [wk EXCEPT ![w] =
              IF wk[w].cancelled THEN Aborted(w) ELSE [wk[w] EXCEPT !.pc = "d_mark"]]
  /\ UNCHANGED <<resource, file, resource_file, blob, jobs, disp, cl, calls, fails, tick, ticks, cfg, closed, pager, hasher>>

\* the references of other resources to the hash are counted
deleteCount(w) ==
  /\ wk[w].pc = "d_count"
  /\ LET cnt == Cardinality({rf \in resource_file :
                               rf[2] = wk[w].rf[2] /\ rf[1] # wk[w].id}) IN
       wk' = [wk EXCEPT ![w] =
                IF wk[w].cancelled THEN Aborted(w)
                ELSE IF cnt > 0 THEN DeleteNext(w)
                ELSE [wk[w] EXCEPT !.pc = "d_mark"]]
  /\ UNCHANGED <<resource, file, resource_file, blob, jobs, disp, cl, calls, fails, tick, ticks, cfg, closed, pager, hasher>>

\* the File row is marked Deleting with stored_size = 0
deleteMark(w) ==
  /\ wk[w].pc = "d_mark"
  /\ LET h == wk[w].rf[2] IN
       IF wk[w].cancelled
       THEN /\ wk' = [wk EXCEPT ![w] = Aborted(w)]
            /\ UNCHANGED file
       ELSE /\ wk' = [wk EXCEPT ![w].pc = "d_s3"]
            /\ file' = IF file[h].present
                       THEN [file EXCEPT ![h].status = StatusDeleting, ![h].stored = 0,
                                         ![h].age = 0]
                       ELSE file
  /\ UNCHANGED <<resource, resource_file, blob, jobs, disp, cl, calls, fails, tick, ticks, cfg, closed, pager, hasher>>

\* DeleteObjectWithContext
deleteObject(w) ==
  /\ wk[w].pc = "d_s3"
  /\ ~wk[w].cancelled
  /\ \/ /\ fails > 0
        /\ fails' = fails - 1
        /\ wk' = [wk EXCEPT ![w] = Failed(w, ErrBlob)]
        /\ UNCHANGED blob
     \/ /\ blob' = blob \ {wk[w].rf[2]}
        /\ wk' = [wk EXCEPT ![w].pc = "d_frow"]
        /\ UNCHANGED fails
  /\ UNCHANGED <<resource, file, resource_file, jobs, disp, cl, calls, tick, ticks, cfg, closed, pager, hasher>>

\* the File row is deleted; its ResourceFile rows go with it
deleteFileRow(w) ==
  /\ wk[w].pc = "d_frow"
  /\ LET h == wk[w].rf[2] IN
       IF wk[w].cancelled
       THEN /\ wk' = [wk EXCEPT ![w] = Aborted(w)]
            /\ UNCHANGED <<file, resource_file>>
       ELSE /\ wk' = [wk EXCEPT ![w] = DeleteNext(w)]
            /\ file' = [file EXCEPT ![h] = NoFile]
            /\ resource_file' = IF file[h].present THEN CascadeFile(h) ELSE resource_file
  /\ UNCHANGED <<resource, blob, jobs, disp, cl, calls, fails, tick, ticks, cfg, closed, pager, hasher>>

\* the Resource row is deleted; its ResourceFile rows go with it
deleteResourceRow(w) ==
  /\ wk[w].pc = "d_res"
  /\ LET id == wk[w].id IN
       IF wk[w].cancelled
       THEN /\ wk' = [wk EXCEPT ![w] = Aborted(w)]
            /\ UNCHANGED <<resource, resource_file, disp>>
       ELSE /\ Unlocked(id)
            /\ wk' = [wk EXCEPT ![w] = Done(w, "")]
            /\ IF resource[id].present
               THEN /\ resource' = [resource EXCEPT ![id] = NoResource]
                    /\ resource_file' = CascadeResource(id)
                    /\ disp' = Written(id)
               ELSE UNCHANGED <<resource, resource_file, disp>>
  /\ UNCHANGED <<file, blob, jobs, cl, calls, fails, tick, ticks, cfg, closed, pager, hasher>>

\* ---- time -------------------------------------------------------------------
Min(a, b) == IF a < b THEN a ELSE b

\* the steps that take no time: the statements sent to the database, the
\* receive of a job by an idle worker, the send of a job into a channel that
\* has room
Instant ==
  \/ \E c \in Clients : PutInsert(c)
  \/ \E c \in Clients : PutUpdate(c)
  \/ \E c \in Clients : DelDelete(c)
  \/ \E c \in Clients : DelUpdate(c)
  \/ \E c \in Clients : respond(c)
  \/ process
  \/ processResource
  \/ processPush
  \/ processCommit
  \/ \E w \in Workers : workerLoop(w)
  \/ \E w \in Workers : jobCancelContext(w)
  \/ \E w \in Workers : callCancelled(w)
  \/ \E w \in Workers : handleError(w)
  \/ \E w \in Workers : storeReset(w)
  \/ \E w \in Workers : storeTotal(w)
  \/ \E w \in Workers : storeFileLookup1(w)
  \/ \E w \in Workers : storeFileLookup2(w)
  \/ \E w \in Workers : storeFileInsert(w)
  \/ \E w \in Workers : storeFileFinal(w)
  \/ \E w \in Workers : flushFile(w)
  \/ \E w \in Workers : flushResource(w)
  \/ \E w \in Workers : flushStop(w)
  \/ \E w \in Workers : storeStored(w)
  \/ \E w \in Workers : storeLink(w)
  \/ \E w \in Workers : storeStatus(w)
  \/ \E w \in Workers : deleteList(w)
  \/ \E w \in Workers : deleteLoad(w)
  \/ \E w \in Workers : deleteDecrement(w)
  \/ \E w \in Workers : deleteCount(w)
  \/ \E w \in Workers : deleteMark(w)
  \/ \E w \in Workers : deleteFileRow(w)
  \/ \E w \in Workers : deleteResourceRow(w)

\* the steps that take time: a request of a client arrives, a call to the
\* upstream API or to the blob store returns
Slow ==
  \/ \E c \in Clients, id \in Ids : PutSelect(c, id)
  \/ \E c \in Clients, id \in Ids : DelSelect(c, id)
  \/ \E w \in Workers : storeList(w)
  \/ \E w \in Workers : storeFileHash(w)
  \/ \E w \in Workers : storeFileRead(w)
  \/ \E w \in Workers : storeFileUpload(w)
  \/ \E w \in Workers : deleteObject(w)
  \/ Close

\* 5 s pass, once no instant step is left to take: the tickers of the
\* dispatcher and of the flushers fire, the timers of the watchdogs fire, the
\* rows get older
Tick ==
  /\ ~ENABLED Instant
  /\ ticks > 0
  /\ ticks' = ticks - 1
  /\ tick' = TRUE
  /\ resource' = [id \in Ids |->
                    IF resource[id].present /\ resource[id].status # StatusStored
                    THEN [resource[id] EXCEPT !.age = Min(@ + 1, DueTicks + 1)]
                    ELSE resource[id]]
  /\ file' = [h \in Hashes |->
                IF file[h].present /\ file[h].status # StatusStored
                THEN [file[h] EXCEPT !.age = Min(@ + 1, DueTicks)]
                ELSE file[h]]
  /\ wk' = [w \in Workers |->
              [wk[w] EXCEPT !.wd = IF @ = "armed" THEN "fired" ELSE @,
                            !.fl = IF @ = "on" THEN "due" ELSE @]]
  /\ UNCHANGED <<resource_file, blob, jobs, disp, cl, calls, fails, cfg, closed, pager, hasher>>

Next == Instant \/ Slow \/ Tick

Spec == Init /\ [][Next]_vars

\* the HTTP handlers alone: ResourceQueueForStoring and
\* ResourceQueueForDeletion
Handlers ==
  \/ \E c \in Clients, id \in Ids : PutSelect(c, id)
  \/ \E c \in Clients : PutInsert(c)
  \/ \E c \in Clients : PutUpdate(c)
  \/ \E c \in Clients, id \in Ids : DelSelect(c, id)
  \/ \E c \in Clients : DelDelete(c)
  \/ \E c \in Clients : DelUpdate(c)
  \/ \E c \in Clients : respond(c)

SpecCalls == StartCalls /\ [][Handlers]_vars

SpecRace == StartRace /\ [][Handlers]_vars

\* the short deployment alone
InitLite == StartLite \/ StartClose \/ StartTrio
SpecLite == InitLite /\ [][Next]_vars

\* ---- the Delete jobs alone ------------------------------------------------------
\* the worker pool on a database that holds r1 Stored, alone or with r2, which
\* links the same file; the resources are deleted, nothing is PUT
StartShared ==
  \E stored \in {{"r1"}, {"r1", "r2"}} :
    Start(Workers, stored, None, [r \in Ids |-> IF r \in stored THEN MaxDel ELSE 0],
          MaxFail, LiteTicks, FALSE)

\* DELETE calls, the dispatcher and the Delete jobs
Deletes ==
  \/ \E c \in Clients, id \in Ids : DelSelect(c, id)
  \/ \E c \in Clients : DelUpdate(c)
  \/ \E c \in Clients : respond(c)
  \/ process
  \/ processResource
  \/ processPush
  \/ processCommit
  \/ \E w \in Workers : workerLoop(w)
  \/ \E w \in Workers : jobCancelContext(w)
  \/ \E w \in Workers : handleError(w)
  \/ \E w \in Workers : deleteList(w)
  \/ \E w \in Workers : deleteLoad(w)
  \/ \E w \in Workers : deleteDecrement(w)
  \/ \E w \in Workers : deleteCount(w)
  \/ \E w \in Workers : deleteMark(w)
  \/ \E w \in Workers : deleteObject(w)
  \/ \E w \in Workers : deleteFileRow(w)
  \/ \E w \in Workers : deleteResourceRow(w)
  \/ Tick

SpecDelete == StartShared /\ [][Deletes]_vars

\* ---- handleStore over the pages of a listing ---------------------------------
\* The loop of handleStore taken alone: one Store job, no other actor, no
\* failure of an external call; storeFile returns the File after its upload.
PageLimit == 2      \* Limit of listArgs (100), scaled
MaxItems == 5       \* items of the longest listing
ItemSizes == {1, 2}
ListTypeFile == "file"
ListTypeDirectory == "directory"

PageItems == [type : {ListTypeFile, ListTypeDirectory}, size : ItemSizes]
PageListings == UNION {[1..n -> PageItems] : n \in 0..MaxItems}

\* the ListResponse for limit PageLimit and an offset: the items after the
\* first offset ones, at most PageLimit of them, and the count of the listing
ListResponse(items, offset) ==
  [Items |-> SubSeq(items, offset + 1, Min(offset + PageLimit, Len(items))),
   Count |-> Len(items)]

StartPages ==
  /\ \E items \in PageListings :
       pager = [IdlePager EXCEPT !.pc = "reset", !.items = items, !.total = 0, !.stored = 0]
  /\ resource = [r \in Ids |-> NoResource]
  /\ file = [h \in Hashes |-> NoFile]
  /\ resource_file = {}
  /\ blob = {}
  /\ jobs = <<>>
  /\ disp = IdleDisp
  /\ wk = [w \in Workers |-> IdleWorker]
  /\ cl = [c \in Clients |-> IdleClient]
  /\ calls = [put |-> None, del |-> None]
  /\ fails = 0
  /\ tick = FALSE
  /\ ticks = 0
  /\ cfg = [workers |-> {}, stored |-> {}, put |-> None, del |-> None, fails |-> 0,
            ticks |-> 0, close |-> FALSE, clients |-> {"c1"}]
  /\ closed = FALSE
  /\ hasher = IdleHasher

\* the item of the page the loop is at
PageItem == pager.resp[pager.i]

\* the loop over resp.Items goes to the next item or leaves the page
NextItem(pg) ==
  IF pg.i < Len(pg.resp) THEN [pg EXCEPT !.i = @ + 1, !.pc = "item"]
  ELSE [pg EXCEPT !.pc = "end"]

\* reset of total_size and stored_size; Offset is 0
pageReset ==
  /\ pager.pc = "reset"
  /\ pager' = [pager EXCEPT !.total = 0, !.stored = 0, !.offset = 0, !.pc = "list"]

\* ListResourceContent returns a page; totalSize and totalStored are declared
\* in the body of the loop over the pages
pageList ==
  /\ pager.pc = "list"
  /\ LET resp == ListResponse(pager.items, pager.offset) IN
       pager' = [pager EXCEPT !.resp = resp.Items, !.reqs = Append(@, pager.offset),
                               !.totalSize = 0, !.totalStored = 0, !.i = 1,
                               !.pc = IF resp.Items = <<>> THEN "end" ELSE "item"]

\* an item that is not a file is passed over
pageSkip ==
  /\ pager.pc = "item"
  /\ PageItem.type # ListTypeFile
  /\ pager' = NextItem([pager EXCEPT !.seen = Append(@, pager.offset + pager.i)])

\* total_size = totalSize is written; the update fails on the CHECK constraints
pageTotal ==
  /\ pager.pc = "item"
  /\ PageItem.type = ListTypeFile
  /\ LET t == pager.totalSize + PageItem.size IN
       IF RowOK([total |-> t, stored |-> pager.stored])
       THEN pager' = [pager EXCEPT !.totalSize = t, !.total = t, !.pc = "file"]
       ELSE pager' = [pager EXCEPT !.totalSize = t, !.pc = "error"]

\* storeFile returns; stored_size = totalStored is written, the ResourceFile row
\* is inserted
pageStored ==
  /\ pager.pc = "file"
  /\ LET t == pager.totalStored + PageItem.size IN
       IF RowOK([total |-> pager.total, stored |-> t])
       THEN pager' = NextItem([pager EXCEPT !.totalStored = t, !.stored = t,
                                             !.seen = Append(@, pager.offset + pager.i)])
       ELSE pager' = [pager EXCEPT !.totalStored = t, !.pc = "error"]

\* the end of a page: break, or Offset += Limit
pageEnd ==
  /\ pager.pc = "end"
  /\ IF ListResponse(pager.items, pager.offset).Count - pager.offset = Len(pager.resp)
     THEN pager' = [pager EXCEPT !.pc = "status"]
     ELSE pager' = [pager EXCEPT !.offset = @ + PageLimit, !.pc = "list"]

\* status = Stored is written and handleStore returns nil
pageStatus ==
  /\ pager.pc = "status"
  /\ pager' = [pager EXCEPT !.status = StatusStored, !.pc = "done"]

\* handleStore has returned an error: handleError writes StoreError
pageError ==
  /\ pager.pc = "error"
  /\ pager' = [pager EXCEPT !.status = StatusStoreError, !.pc = "failed"]

Pages ==
  /\ \/ pageReset
     \/ pageList
     \/ pageSkip
     \/ pageTotal
     \/ pageStored
     \/ pageEnd
     \/ pageStatus
     \/ pageError
  /\ UNCHANGED <<resource, file, resource_file, blob, jobs, disp, wk, cl, calls, fails, tick,
                 ticks, cfg, closed, hasher>>

SpecPages == StartPages /\ [][Pages]_vars

\* ---- generateFileHash ------------------------------------------------------------
\* generateFileHash taken alone, on a file whose content has the declared size;
\* no download fails.
limitStart == 2     \* 500 * 1024, scaled
limitEnd == 2       \* 500 * 1024, scaled
MaxSize == 10       \* size of the largest file
Bytes == {0, 1}

\* fmt.Sprintf("%v", size): the decimal digits of size, as ASCII codes
RECURSIVE Digits(_)
Digits(n) == IF n < 10 THEN <<48 + n>> ELSE Append(Digits(n \div 10), 48 + (n % 10))

\* the body of the response to DownloadWithRange(u, start, end): no Range
\* header for start = 0 and end = -1, else "bytes=start-end" with an empty end
\* for -1; the server answers with the bytes start to end, both included
RangeBody(content, start, end) ==
  IF start = 0 /\ end = -1 THEN content
  ELSE SubSeq(content, start + 1,
              IF end = -1 THEN Len(content) ELSE Min(end, Len(content) - 1) + 1)

StartHashing(nfails) ==
  /\ \E n \in 0..MaxSize : \E c \in [1..n -> Bytes] :
       hasher = [IdleHasher EXCEPT !.pc = "size", !.size = n, !.content = c]
  /\ resource = [r \in Ids |-> NoResource]
  /\ file = [h \in Hashes |-> NoFile]
  /\ resource_file = {}
  /\ blob = {}
  /\ jobs = <<>>
  /\ disp = IdleDisp
  /\ wk = [w \in Workers |-> IdleWorker]
  /\ cl = [c \in Clients |-> IdleClient]
  /\ calls = [put |-> None, del |-> None]
  /\ fails = nfails
  /\ tick = FALSE
  /\ ticks = 0
  /\ cfg = [workers |-> {}, stored |-> {}, put |-> None, del |-> None, fails |-> nfails,
            ticks |-> 0, close |-> FALSE, clients |-> {"c1"}]
  /\ closed = FALSE
  /\ pager = IdlePager

\* every download and every copy succeeds
StartHash == StartHashing(0)

\* a download or a copy may fail
StartBroken == StartHashing(MaxFail)

\* h.Write of the size; the branch on size < limitStart+limitEnd
hashSize ==
  /\ hasher.pc = "size"
  /\ hasher' = [hasher EXCEPT !.input = @ \o Digits(hasher.size),
                                !.pc = IF hasher.size < limitStart + limitEnd THEN "whole"
                                       ELSE "head"]
  /\ UNCHANGED fails

\* what io.Copy has written into the hash when a read of the body fails
Partial(body) == {SubSeq(body, 1, k) : k \in 0..(Len(body) - 1)}

\* Download and io.Copy of the whole file; an error of either is returned
hashWhole ==
  /\ hasher.pc = "whole"
  /\ LET body == RangeBody(hasher.content, 0, -1) IN
       \/ /\ hasher' = [hasher EXCEPT !.input = @ \o body, !.pc = "done"]
          /\ UNCHANGED fails
       \/ /\ fails > 0
          /\ fails' = fails - 1
          /\ \E part \in Partial(body) \cup {<<>>} :
               hasher' = [hasher EXCEPT !.input = @ \o part, !.pc = "error"]

\* DownloadWithRange(ctx, u, 0, int(limitStart)) and io.Copy; an error of
\* either is returned
hashHead ==
  /\ hasher.pc = "head"
  /\ LET body == RangeBody(hasher.content, 0, limitStart) IN
       \/ /\ hasher' = [hasher EXCEPT !.input = @ \o body, !.pc = "tail"]
          /\ UNCHANGED fails
       \/ /\ fails > 0
          /\ fails' = fails - 1
          /\ \E part \in Partial(body) \cup {<<>>} :
               hasher' = [hasher EXCEPT !.input = @ \o part, !.pc = "error"]

\* DownloadWithRange(ctx, u, int(size-limitEnd), -1) and io.Copy; h.Sum.  An
\* error of the download is returned; the error of the copy is assigned and
\* not tested, the sum of what was written is returned
hashTail ==
  /\ hasher.pc = "tail"
  /\ LET body == RangeBody(hasher.content, hasher.size - limitEnd, -1) IN
       \/ /\ hasher' = [hasher EXCEPT !.input = @ \o body, !.pc = "done"]
          /\ UNCHANGED fails
       \/ /\ fails > 0
          /\ fails' = fails - 1
          /\ hasher' = [hasher EXCEPT !.pc = "error"]
       \/ /\ fails > 0
          /\ fails' = fails - 1
          /\ \E part \in Partial(body) :
               hasher' = [hasher EXCEPT !.input = @ \o part, !.pc = "done"]

Hashing ==
  /\ \/ hashSize
     \/ hashWhole
     \/ hashHead
     \/ hashTail
  /\ UNCHANGED <<resource, file, resource_file, blob, jobs, disp, wk, cl, calls, tick,
                 ticks, cfg, closed, pager>>

SpecHash == StartHash /\ [][Hashing]_vars

SpecBroken == StartBroken /\ [][Hashing]_vars

TypeOK ==
  /\ \A id \in Ids : RowOK(resource[id])
  /\ \A h \in Hashes : RowOK(file[h])
  /\ Len(jobs) <= JobsCap
  /\ \A rf \in resource_file : resource[rf[1]].present /\ file[rf[2]].present

\* ---- vocabulary of the properties -------------------------------------------
\* processJob of worker w has not returned
Busy(w) == wk[w].pc # "idle"

\* the goroutine of the job (worker, watchdog or flusher of w) takes the step
Steps(w) == Busy(w) /\ wk'[w] # wk[w]

\* the row of a resource changes its status, appears or disappears
StatusChanged(a, b) == a.present # b.present \/ (a.present /\ a.status # b.status)

\* the transitions of the resource state machine, by actor
DispatcherMoves(a, b) ==
  /\ a.present /\ b.present
  /\ <<a.status, b.status>> \in {<<StatusQueuedForStoring, StatusStoring>>,
                                 <<StatusQueuedForDeletion, StatusDeleting>>}

StoreJobMoves(a, b) ==
  /\ a.present /\ b.present
  /\ a.status = StatusStoring
  /\ b.status \in {StatusStored, StatusStoreError}

DeleteJobMoves(a, b) ==
  /\ a.present
  /\ a.status = StatusDeleting
  /\ (~b.present \/ b.status = StatusDeleteError)

ClientMoves(a, b) ==
  \/ ~a.present /\ b.present /\ b.status = StatusQueuedForStoring
  \/ /\ a.present /\ b.present
     /\ a.status \in {StatusStoreError, StatusQueuedForDeletion, StatusDeleting,
                      StatusDeleteError}
     /\ b.status = StatusQueuedForStoring
  \/ a.present /\ a.status = StatusQueuedForStoring /\ ~b.present
  \/ /\ a.present /\ b.present
     /\ a.status \in {StatusStoring, StatusStored, StatusStoreError, StatusDeleteError}
     /\ b.status = StatusQueuedForDeletion

\* a client's write to the row of id is the step
ClientWrites(id) ==
  \E c \in Clients : cl[c].id = id /\ cl[c].pc \notin {"idle", "respond"} /\ cl'[c].pc = "respond"

\* nothing is queued or in flight and nothing is left for the dispatcher
Settled ==
  /\ jobs = <<>>
  /\ disp.pc = "idle"
  /\ \A w \in Workers : [wk[w] EXCEPT !.log = NoLog] = IdleWorker
  /\ \A c \in Clients : cl[c].pc = "idle"
  /\ \A id \in Ids : resource[id].present => resource[id].status = StatusStored

\* ---- C1 ---------------------------------------------------------------------
\* C1: at no point are two workers processing jobs of the same resource id:
\* two workers whose processJob has not returned hold different ids.
C1_OneWorkerPerResource ==
  \A w1, w2 \in Workers :
    (w1 # w2 /\ Busy(w1) /\ Busy(w2)) => wk[w1].id # wk[w2].id

\* ---- C2 ---------------------------------------------------------------------
\* C2: for one resource a Store job and a Delete job never run at the same
\* time.
C2_StoreDeleteExclusive ==
  \A w1, w2 \in Workers :
    ~(/\ Busy(w1) /\ wk[w1].status = StatusStoring
      /\ Busy(w2) /\ wk[w2].status = StatusDeleting
      /\ wk[w1].id = wk[w2].id)

\* ---- C3 ---------------------------------------------------------------------
\* C3: every change of a Resource's status is a transition of the state
\* machine made by the actor that owns it: the dispatcher's claim, the Store
\* job of the resource, the Delete job of the resource, or a client call.
C3_StateMachineByActor ==
  [][\A id \in Ids :
       StatusChanged(resource[id], resource'[id]) =>
         \/ /\ disp.pc = "commit" /\ disp.lock = id
            /\ DispatcherMoves(resource[id], resource'[id])
         \/ \E w \in Workers :
              /\ Steps(w) /\ wk[w].id = id /\ wk[w].status = StatusStoring
              /\ StoreJobMoves(resource[id], resource'[id])
         \/ \E w \in Workers :
              /\ Steps(w) /\ wk[w].id = id /\ wk[w].status = StatusDeleting
              /\ DeleteJobMoves(resource[id], resource'[id])
         \/ /\ ClientWrites(id)
            /\ ClientMoves(resource[id], resource'[id])]_vars

\* ---- C4 ---------------------------------------------------------------------
\* C4: the dispatcher claims a due row only when it was listed as
\* QueuedForStoring or QueuedForDeletion, and every job on the queue carries
\* status Storing or Deleting.
C4_OnlyQueuedRowsClaimed ==
  /\ disp.pc \in {"push", "commit"} =>
       disp.seen \in {StatusQueuedForStoring, StatusQueuedForDeletion}
  /\ \A i \in 1..Len(jobs) : jobs[i].status \in {StatusStoring, StatusDeleting}

\* ---- C5 ---------------------------------------------------------------------
\* C5: a row in StoreError or DeleteError keeps its status, and no job for its
\* id is enqueued, in every step that is not a client's write to that row.
C5_NoAutomaticRetry ==
  [][\A id \in Ids :
       (/\ resource[id].present
        /\ resource[id].status \in {StatusStoreError, StatusDeleteError}
        /\ ~ClientWrites(id))
       => /\ ~StatusChanged(resource[id], resource'[id])
          /\ Len(jobs') > Len(jobs) => jobs'[Len(jobs')].id # id]_vars

\* ---- C6 ---------------------------------------------------------------------
\* C6: once a DELETE has turned the row of a running Store job to
\* QueuedForDeletion, no step of that job sets the row to Stored or StoreError.
C6_DeletedStoreJobWritesNoStatus ==
  [][\A w \in Workers :
       LET id == wk[w].id IN
         (/\ Steps(w) /\ wk[w].status = StatusStoring
          /\ resource[id].present
          /\ resource[id].status = StatusQueuedForDeletion)
         => ~(/\ resource'[id].present
              /\ resource'[id].status \in {StatusStored, StatusStoreError})]_vars

\* ---- C7 ---------------------------------------------------------------------
\* C7: for every ResourceFile row (R, h, p) of a resource R in Stored status
\* the File row h and the blob with key h exist.
C7_ReferencedFileKept ==
  \A rf \in resource_file :
    (resource[rf[1]].present /\ resource[rf[1]].status = StatusStored)
      => (file[rf[2]].present /\ rf[2] \in blob)

\* ---- C8 ---------------------------------------------------------------------
\* C8: when resources that list the same file are stored (no DELETE, no
\* failing call, an empty database at the start), the blob of the file is put
\* once: no upload ends on a key that already holds the object.
C8_OnePutPerFingerprint ==
  [][\A w \in Workers :
       (/\ cfg.stored = {} /\ cfg.del = None /\ cfg.fails = 0
        /\ wk[w].pc = "f_upload" /\ wk'[w].pc = "f_final")
       => wk[w].f.hash \notin blob]_vars

\* ---- C9 ---------------------------------------------------------------------
\* C9: after the DELETE of a Stored resource X, with no other call on X, no
\* other resource and no failing external call, a settled system holds no
\* Resource row of X, no ResourceFile row of X, and neither the File row nor
\* the blob of a file X listed.
C9_DeleteRemovesEverything ==
  \A x \in Ids :
    (/\ x \in cfg.stored /\ cfg.fails = 0 /\ cfg.put[x] = 0
     /\ cfg.del[x] > 0 /\ calls.del[x] = 0
     /\ \A y \in Ids \ {x} : ~resource[y].present /\ calls.put[y] = cfg.put[y]
     /\ Settled)
    => /\ ~resource[x].present
       /\ \A rf \in resource_file : rf[1] # x
       /\ \A i \in 1..Len(Listings[x]) :
            LET h == FileHash(Listings[x][i]) IN ~file[h].present /\ h \notin blob

\* ---- C10 --------------------------------------------------------------------
\* C10: once all jobs have settled every File row is referenced by at least
\* one ResourceFile row.
C10_NoUnreferencedFile ==
  Settled => \A h \in Hashes : file[h].present => \E rf \in resource_file : rf[2] = h

\* C11: for every Stored resource R and every path p of R, the resource_file
\* row (R, h, p) links R to the fingerprint of the bytes that upstream serves
\* for (R, p); a file of R is never linked to the File row of another content
\* that has the same size and path in another resource.
C11_LinkedToOwnContent ==
  \A id \in Ids :
    (resource[id].present /\ resource[id].status = StatusStored) =>
      \A rf \in resource_file :
        rf[1] = id =>
          \E i \in 1..Len(Listings[id]) :
            Listings[id][i].path = rf[3] /\ FileHash(Listings[id][i]) = rf[2]

\* C12: in every committed state, a Stored resource has stored_size equal to
\* total_size and at least one resource_file row at the path of each
\* non-empty File item of its listing.
C12_StoredIsComplete ==
  \A id \in Ids :
    (resource[id].present /\ resource[id].status = StatusStored /\ disp.lock # id) =>
      /\ resource[id].stored = resource[id].total
      /\ \A i \in 1..Len(Listings[id]) :
           Listings[id][i].size > 0 =>
             \E rf \in resource_file : rf[1] = id /\ rf[3] = Listings[id][i].path

\* C13: every Resource row and every File row satisfies
\* 0 <= stored_size <= total_size in every committed state, under all
\* interleavings of Store jobs, Delete jobs and flushes.
C13_SizesWithinTotal ==
  /\ \A id \in Ids :
       resource[id].present =>
         0 <= resource[id].stored /\ resource[id].stored <= resource[id].total
  /\ \A h \in Hashes :
       file[h].present => 0 <= file[h].stored /\ file[h].stored <= file[h].total

\* a statement of a job has been rejected by the CHECK constraint
C13_Witness ==
  /\ C13_SizesWithinTotal
  /\ \E w \in Workers : wk[w].pc = "error" /\ wk[w].err = ErrCheck

\* no DELETE of the resource id has been issued in the behaviour so far
NeverDeleted(id) == calls.del[id] = cfg.del[id]

\* C14: for a resource that was PUT and never DELETEd, the first status after
\* leaving {QueuedForStoring, Storing} is Stored or StoreError; the row is
\* never removed and never takes a deletion status.
C14_StoreEndsStoredOrError ==
  [][\A id \in Ids :
       (resource[id].present /\ NeverDeleted(id)) =>
         /\ resource'[id].present
         /\ resource'[id].status \notin
              {StatusQueuedForDeletion, StatusDeleting, StatusDeleteError}
         /\ resource[id].status \in {StatusQueuedForStoring, StatusStoring} =>
              resource'[id].status \in {StatusQueuedForStoring, StatusStoring,
                                        StatusStored, StatusStoreError}]_vars

\* a resource never DELETEd has left Storing with a failed Store job, the
\* File row and the blob of another run being there
C14_Witness ==
  \E id \in Ids :
    /\ resource[id].present /\ NeverDeleted(id)
    /\ resource[id].status = StatusStoreError
    /\ resource[id].error # ""

\* the handler of a PUT (of a DELETE) obtains its result in this step
PutReturns(c) ==
  /\ cl'[c].pc = "respond"
  /\ \/ cl[c].pc \in {"put_insert", "put_update"}
     \/ cl[c].pc = "idle" /\ calls'.put # calls.put

DelReturns(c) ==
  /\ cl'[c].pc = "respond"
  /\ \/ cl[c].pc \in {"del_delete", "del_update"}
     \/ cl[c].pc = "idle" /\ calls'.del # calls.del

\* the decision tables of QueueForStoring and QueueForDeletion
QueueForStoringTable(row) ==
  IF ~row.present
  THEN [present |-> TRUE, status |-> StatusQueuedForStoring, total |-> 0, stored |-> 0,
        error |-> "", age |-> 0]
  ELSE IF row.status \in {StatusQueuedForStoring, StatusStoring, StatusStored}
       THEN row
       ELSE [row EXCEPT !.status = StatusQueuedForStoring, !.age = 0]

QueueForDeletionTable(row) ==
  IF ~row.present THEN NoResource
  ELSE IF row.status \in {StatusQueuedForDeletion, StatusDeleting} THEN row
  ELSE IF row.status = StatusQueuedForStoring THEN NoResource
  ELSE [row EXCEPT !.status = StatusQueuedForDeletion, !.age = 0]

\* C15: QueueForStoring(id) behaves as its decision table for every starting
\* state (absent -> insert QueuedForStoring; QueuedForStoring, Storing,
\* Stored -> no change; any other status -> QueuedForStoring) and returns the
\* resulting row; applied twice it leaves the state of one application; on a
\* Stored resource it leaves Stored, triggers no job and leaves the
\* resource_file rows unchanged.
C15_QueueForStoringTable ==
  [][\A c \in Clients :
       PutReturns(c) =>
         LET id == cl'[c].id IN
           /\ resource' = [resource EXCEPT ![id] = QueueForStoringTable(resource[id])]
           /\ QueueForStoringTable(resource'[id]) = resource'[id]
           /\ cl'[c].ret = resource'[id]
           /\ cl'[c].http = StatusAccepted
           /\ UNCHANGED <<file, resource_file, blob, jobs>>]_vars

\* a second PUT in a row has returned the row that the first one moved from
\* an error status to QueuedForStoring
C15_Witness ==
  \E c \in Clients :
    /\ cl[c].pc = "respond" /\ cl[c].http = StatusAccepted
    /\ calls.put[cl[c].id] = cfg.put[cl[c].id] - 2
    /\ calls.del = cfg.del
    /\ cl[c].ret.status = StatusQueuedForStoring /\ cl[c].ret.error # ""
    /\ resource[cl[c].id] = cl[c].ret

\* C16: QueueForDeletion(id) behaves as its decision table for every starting
\* state (absent -> no change, null; QueuedForDeletion, Deleting -> no
\* change; QueuedForStoring -> the row is deleted; any other status ->
\* QueuedForDeletion); the same DELETE issued again right after the first
\* changes nothing more.
C16_QueueForDeletionTable ==
  [][\A c \in Clients :
       DelReturns(c) =>
         LET id == cl'[c].id
             after == QueueForDeletionTable(resource[id])
         IN /\ resource' = [resource EXCEPT ![id] = after]
            /\ QueueForDeletionTable(after) = after
            /\ cl'[c].ret = after
            /\ cl'[c].http = IF after.present THEN StatusAccepted ELSE StatusNotFound
            /\ resource_file' = IF after.present THEN resource_file
                                 ELSE {rf \in resource_file : rf[1] # id}
            /\ UNCHANGED <<file, blob, jobs>>]_vars

\* a second DELETE in a row has returned: the first one removed the row it
\* saw QueuedForStoring, with its link, and the second one found nothing
C16_Witness ==
  \E c \in Clients :
    /\ cl[c].pc = "respond" /\ cl[c].http = StatusNotFound
    /\ calls.del[cl[c].id] = cfg.del[cl[c].id] - 2
    /\ calls.put = cfg.put
    /\ cl[c].id \in cfg.stored
    /\ ~resource[cl[c].id].present
    /\ \A rf \in resource_file : rf[1] # cl[c].id

\* C17: a DELETE that observes QueuedForStoring removes the row and, unless a
\* later PUT re-creates it, no Store job ever runs for that id and no File
\* row or blob is created for it, whatever the interleaving with a dispatcher
\* tick that claims the row: when the row is removed, no Store job of the id
\* is queued or running.
C17_DeletedBeforeStoreNeverStored ==
  [][\A c \in Clients :
       (cl[c].pc = "del_delete" /\ resource[cl[c].id].present
          /\ ~resource'[cl[c].id].present) =>
         /\ \A i \in 1..Len(jobs') :
              ~(jobs'[i].id = cl[c].id /\ jobs'[i].status = StatusStoring)
         /\ \A w \in Workers :
              ~(Busy(w) /\ wk[w].id = cl[c].id /\ wk[w].status = StatusStoring)]_vars

\* the handler of w's job has returned an error that is not the context's,
\* and this step is processJob's call of handleError
HandlesError(w) == wk[w].pc = "error" /\ wk'[w].pc = "idle"

ErrorStatus(w) ==
  IF wk[w].status = StatusStoring THEN StatusStoreError ELSE StatusDeleteError

ClaimAttempt == disp.pc = "loop" /\ disp'.list # disp.list
Claimed == ClaimAttempt /\ disp'.pc = "push"

\* C19: ClaimForProcessing sets the row's status to the target and reports
\* claimed only if, under the row lock, the row exists with the updated_at
\* that ListDue saw; otherwise the row is left unchanged and nothing is
\* enqueued.  Every update of a row changes updated_at, so a row updated
\* since ListDue (in the model: a row that is no longer older than 10 s, or
\* whose status is not the listed one) is never claimed.
C19_ClaimGuard ==
  [][/\ ClaimAttempt => resource' = resource /\ jobs' = jobs
     /\ Claimed =>
          LET id == disp'.lock IN
            /\ [id |-> id, status |-> disp'.seen] \in disp.list
            /\ resource[id].present
            /\ resource[id].status = disp'.seen
            /\ resource[id].age > DueTicks
            /\ disp.lock = NoId
     /\ (ClaimAttempt /\ ~Claimed) => disp'.lock = NoId
     /\ (disp.pc = "commit" /\ disp'.pc # "commit") =>
          \/ resource' = [resource EXCEPT ![disp.lock].status = disp.status,
                                          ![disp.lock].age = 0]
          \/ closed /\ resource' = resource]_vars

\* a listed row has been updated after ListDue without a change of its
\* status, and the dispatcher is about to attempt the claim
C19_Witness ==
  /\ disp.pc = "loop"
  /\ \E r \in disp.list :
       /\ resource[r.id].present
       /\ resource[r.id].status = r.status
       /\ resource[r.id].age = 0

\* the job of the claim that the dispatcher holds
ClaimJob == [status |-> disp.status, id |-> disp.lock]

\* the select of processResource returns in this step
PushReturns == disp.pc = "push" /\ disp'.pc # "push"

\* a job of the row's in-flight status is on the channel or with a worker
HasJob(id) ==
  \/ \E i \in 1..Len(jobs) : jobs[i] = [status |-> resource[id].status, id |-> id]
  \/ \E w \in Workers :
       wk[w].pc # "idle" /\ wk[w].id = id /\ wk[w].status = resource[id].status

InFlightRow(id) ==
  resource[id].present /\ resource[id].status \in {StatusStoring, StatusDeleting}

\* the row gets an in-flight status in this step
GetsInFlight(id) ==
  /\ resource'[id].present
  /\ resource'[id].status \in {StatusStoring, StatusDeleting}
  /\ ~(resource[id].present /\ resource[id].status = resource'[id].status)

\* C20, as claimed: every claim whose status change is committed results in
\* exactly one job {id, target_status} on the job queue; at capacity the
\* dispatcher waits instead of dropping the job; the queue never holds more
\* than its capacity; no row gets or keeps an in-flight status (Storing or
\* Deleting) without a job enqueued for it.
C20_OneJobPerClaim ==
  [][/\ PushReturns => jobs' = Append(jobs, ClaimJob) /\ Len(jobs') <= JobsCap
     /\ (disp.pc # "push" /\ jobs' # jobs) => jobs' = Tail(jobs)
     /\ \A id \in Ids :
          /\ GetsInFlight(id) =>
               /\ disp.pc = "commit" /\ disp.lock = id
               /\ resource'[id].status = disp.status
          /\ InFlightRow(id)' => HasJob(id)']_vars

\* C20, amended: the same, as long as the Worker is not closed; once Close has
\* cancelled the Worker's context the select of processResource may return
\* without sending, and the claim is committed without a job.
C20_OneJobPerClaimUnlessClosed ==
  [][/\ PushReturns =>
          \/ jobs' = Append(jobs, ClaimJob) /\ Len(jobs') <= JobsCap
          \/ closed /\ jobs' = jobs
     /\ (disp.pc # "push" /\ jobs' # jobs) => jobs' = Tail(jobs)
     /\ \A id \in Ids :
          /\ GetsInFlight(id) =>
               /\ disp.pc = "commit" /\ disp.lock = id
               /\ resource'[id].status = disp.status
          /\ (~closed' /\ InFlightRow(id)') => HasJob(id)']_vars

\* the dispatcher waits inside a claim for room on the full channel
C20_Witness ==
  /\ ~closed
  /\ disp.pc = "push"
  /\ Len(jobs) = JobsCap
  /\ disp.status = StatusStoring

\* the row of w's job is gone or has another status than the job's
Diverged(w) ==
  ~(resource[wk[w].id].present /\ resource[wk[w].id].status = wk[w].status)

\* C21: while a job for resource R with target status T is running, the
\* watchdog re-checks R every 5 s for the whole duration of the job: if R's
\* status has become different from T, also later than the first 5 s, the
\* job's context is cancelled at the next check.  So no job whose watchdog
\* has no check pending runs uncancelled on a row that has had another status
\* since before the last period of 5 s ended.
C21_WatchdogKeepsChecking ==
  \A w \in Workers :
    (Busy(w) /\ wk[w].wd = "spent" /\ Diverged(w)
       /\ resource[wk[w].id].present /\ resource[wk[w].id].age >= 1) =>
      wk[w].cancelled

\* C22: when a job has been cancelled by the watchdog because the resource's
\* status was changed by a competing client operation, the worker makes no
\* further change to the Resource row: no step of the cancelled job, of its
\* flusher or of handleError changes table resource.
C22_CancelledJobLeavesRow ==
  [][\A w \in Workers :
       (Busy(w) /\ wk[w].cancelled /\ wk'[w] # wk[w]) => resource' = resource]_vars

\* a Store job that failed after the watchdog had cancelled it has returned,
\* and the row is as the DELETE left it
C22_Witness ==
  \E id \in Ids :
    /\ resource[id].present
    /\ resource[id].status = StatusQueuedForDeletion
    /\ resource[id].error = ""
    /\ fails < cfg.fails
    /\ \A w \in Workers : ~Busy(w)
    /\ jobs = <<>>

\* the row of w's job is QueuedForStoring and a PUT of it that was accepted
\* with this status has its response pending
Rearmed(w) ==
  /\ resource[wk[w].id].present
  /\ resource[wk[w].id].status = StatusQueuedForStoring
  /\ \E c \in Clients :
       /\ cl[c].pc = "respond"
       /\ cl[c].id = wk[w].id
       /\ cl[c].http = StatusAccepted
       /\ cl[c].ret.status = StatusQueuedForStoring

\* C23: if a PUT re-arms a resource while its Delete job is in flight
\* (Deleting becomes QueuedForStoring), the Delete job is cancelled and does
\* not remove the Resource row afterwards: no step of a Delete job removes a
\* row that a PUT has made QueuedForStoring.
C23_RearmedRowSurvives ==
  [][\A w \in Workers :
       (Steps(w) /\ wk[w].status = StatusDeleting /\ Rearmed(w)) =>
         resource'[wk[w].id].present]_vars

\* the deployment has no client calls: the process was restarted on the rows
\* of an earlier run
Restarted == cfg.put = None /\ cfg.del = None

\* C24: after a restart, a resource left in an in-flight status is claimed
\* again and its job is run again with the same operation: the job pushed for
\* a row found Storing is a store job, the job pushed for a row found Deleting
\* is a delete job.
C24_LeftRowSameOperation ==
  [][(Restarted /\ PushReturns /\ disp.seen \in {StatusStoring, StatusDeleting}
        /\ Len(jobs') > Len(jobs)) =>
       jobs'[Len(jobs')].status = disp.seen]_vars

\* the sizes of the File items of a listing, added up
RECURSIVE SumFiles(_)
SumFiles(items) ==
  IF items = <<>> THEN 0
  ELSE (IF Head(items).type = ListTypeFile THEN Head(items).size ELSE 0) + SumFiles(Tail(items))

\* C25: after a successful Store job, total_size equals the sum of the sizes
\* of all File items over all pages of the listing and stored_size equals the
\* same sum, also for listings longer than one page.
C25_SizesAreListingSum ==
  pager.pc = "done" =>
    /\ pager.total = SumFiles(pager.items)
    /\ pager.stored = SumFiles(pager.items)

\* C26: for a listing whose count equals its number of items, the Store job
\* requests the pages at offsets 0, Limit, 2 Limit, ..., visits every listed
\* item exactly once, in order, and ends after the page on which
\* count - offset equals the number of items returned; an empty listing takes
\* one request.
C26_EveryItemOnce ==
  /\ \A k \in 1..Len(pager.reqs) : pager.reqs[k] = (k - 1) * PageLimit
  /\ pager.pc \in {"done", "failed"} =>
       /\ pager.pc = "done"
       /\ pager.seen = [k \in 1..Len(pager.items) |-> k]
       /\ Len(pager.items) - pager.offset = Len(pager.resp)
       /\ (pager.items = <<>>) => pager.reqs = <<0>>

\* C27: for a file of declared size s and content c, the bytes written into
\* the hash are the decimal digits of s followed by all of c when
\* s < limitStart + limitEnd, and the digits of s followed by the first
\* limitStart bytes and then the last limitEnd bytes of c otherwise.
C27_HashInput ==
  hasher.pc = "done" =>
    hasher.input =
      Digits(hasher.size) \o
        (IF hasher.size < limitStart + limitEnd THEN hasher.content
         ELSE SubSeq(hasher.content, 1, limitStart) \o
              SubSeq(hasher.content, hasher.size - limitEnd + 1, hasher.size))

\* the ResourceFile rows that link hash h to a resource other than id
OtherLinks(id, h) == {rf \in resource_file : rf[2] = h /\ rf[1] # id}

\* a Stored resource that no DELETE has named has its row, its link, the File
\* row and the blob as they were
KeptWhole(id) ==
  LET h == FileHash(Listings[id][1]) IN
    /\ resource[id] = StoredResource(id)
    /\ <<id, h, Listings[id][1].path>> \in resource_file
    /\ file[h].present /\ file[h].status = StatusStored
    /\ h \in blob

\* C28: in a Delete job for resource R that runs with no concurrent Store job,
\* the blob and the File row of a hash are deleted if and only if no
\* ResourceFile row with that hash belongs to another resource: the job goes
\* on to the deletion exactly when its count finds no such row, it touches
\* the File row or the blob only when there is none, and a resource R2 that
\* still references the file keeps its File row, its blob and its link and
\* stays Stored.
C28_DeletedIffUnreferenced ==
  /\ [](\A id \in cfg.stored : NeverDeleted(id) => KeptWhole(id))
  /\ [][\A w \in Workers :
          /\ (Steps(w) /\ wk[w].pc = "d_count" /\ ~wk[w].cancelled) =>
                (wk'[w].pc = "d_mark" <=> OtherLinks(wk[w].id, wk[w].rf[2]) = {})
          /\ (Steps(w) /\ (file' # file \/ blob' # blob)) =>
                OtherLinks(wk[w].id, wk[w].rf[2]) = {}]_vars

\* the Delete job of r1 has removed the row of r1, and r2, which links the same
\* file, is whole
C28_Witness ==
  /\ cfg.stored = {"r1", "r2"}
  /\ ~resource["r1"].present
  /\ calls.del["r1"] = 0
  /\ NeverDeleted("r2")
  /\ KeptWhole("r2")
  /\ \A w \in Workers : ~Busy(w)

\* worker w begins the upload of a file: storeFile passes its Insert
BeginsUpload(w) == wk[w].pc = "f_insert" /\ wk'[w].pc = "f_upload"

\* a lookup of storeFile by worker w returns a row that is Stored
FindsStored(w) ==
  /\ ~wk[w].cancelled
  /\ \/ /\ wk[w].pc = "f_lookup1"
        /\ \E h \in Hashes :
             /\ file[h].present /\ file[h].status = StatusStored
             /\ file[h].total = Item(w).size /\ file[h].path = Item(w).path
     \/ /\ wk[w].pc = "f_lookup2"
        /\ file[wk[w].f.hash].present
        /\ file[wk[w].f.hash].status = StatusStored

\* C29: during any Store job no blob upload is issued for a hash whose File
\* row is found with status Stored: a lookup that finds a Stored row ends
\* storeFile without an upload, and an upload begins only with a File struct
\* that no lookup has filled from a Stored row.
C29_StoredFileNotUploaded ==
  [][\A w \in Workers :
       /\ (FindsStored(w) /\ wk'[w].pc # wk[w].pc) =>
             (wk'[w].pc \in {"s_stored", "error"} /\ blob' = blob)
       /\ BeginsUpload(w) => wk[w].f.status # StatusStored]_vars

\* the three resources were stored by one worker: r1 and r2 list the same
\* file, which has one File row and one object
C29_Witness ==
  /\ cfg.put = [r \in Ids |-> 1]
  /\ \A id \in {"r1", "r2"} :
       /\ resource[id].present /\ resource[id].status = StatusStored
       /\ <<id, FileHash(ItemC), ItemC.path>> \in resource_file
  /\ file[FileHash(ItemC)].status = StatusStored
  /\ FileHash(ItemC) \in blob
  /\ \A w \in Workers : ~Busy(w)

\* the edges of the File state machine, from row a to row b of one hash
FileEdge(a, b) ==
  \/ ~a.present /\ b.present /\ b.status = StatusStoring
  \/ a.present /\ b.present /\ a.status = StatusStoring
       /\ b.status \in {StatusStored, StatusStoreError}
  \/ a.present /\ b.present /\ a.status = StatusStored /\ b.status = StatusDeleting
  \/ a.present /\ b.present /\ a.status = StatusDeleting /\ b.status = StatusDeleteError
  \/ a.present /\ ~b.present /\ a.status = StatusDeleting

\* C30: every change of a File's status is an edge of the File state machine:
\* absent to Storing, Storing to Stored, Storing to StoreError, Stored to
\* Deleting, Deleting to removed, Deleting to DeleteError; no other change of
\* status or presence occurs.
C30_FileStateMachine ==
  [][\A h \in Hashes :
       StatusChanged(file[h], file'[h]) => FileEdge(file[h], file'[h])]_vars

\* the flusher of worker w takes a step after storeFile has returned
LateFlush(w) ==
  /\ wk[w].fl \in {"due", "res"}
  /\ wk'[w].fl # wk[w].fl
  /\ wk[w].pc \notin {"f_upload", "f_final"}

\* C31: after storeFile has returned successfully for a file, no progress
\* flush started during that upload writes File.stored_size or
\* Resource.stored_size with an older, smaller value: a step the flusher takes
\* after storeFile's return lowers neither of them.
C31_NoStaleFlush ==
  [][\A w \in Workers :
       LateFlush(w) =>
         /\ \A id \in Ids :
              (resource[id].present /\ resource'[id].present) =>
                resource'[id].stored >= resource[id].stored
         /\ \A h \in Hashes :
              (file[h].present /\ file'[h].present) => file'[h].stored >= file[h].stored]_vars


\* ---- C32 -------------------------------------------------------------------
\* C32: when processJob returns for a job whose log row was opened, the row
\* has finished_at set, with status Success when the job returns no error and
\* with status Fail and the error message otherwise; stated for the jobs of
\* a worker pool that is not being closed, the watchdog's included.
C32_LogRowClosed ==
  [][\A w \in Workers :
       (wk[w].pc # "idle" /\ wk'[w].pc = "idle" /\ wk[w].log # NoLog /\ ~closed) =>
         /\ wk'[w].log.finished
         /\ wk'[w].log.status \in {OperationSuccess, OperationFail}
         /\ (wk'[w].log.status = OperationFail) <=> (wk'[w].log.error_text # "")]_vars


\* ---- C33 -------------------------------------------------------------------
\* C33: a Store job links a file to its resource only when the File row is
\* Stored: never while the row is still Storing, be it that another worker
\* is uploading the object or that the upload has failed.
C33_NoLinkWhileStoring ==
  [][\A rf \in resource_file' \ resource_file :
       file[rf[2]].present /\ file[rf[2]].status # StatusStoring]_vars


\* ---- C34 -------------------------------------------------------------------
\* the Store or Delete job j was pushed by the claim transaction that is
\* still open: the status of the claim is not in the row yet
Unclaimed(j) ==
  /\ j.status \in {StatusStoring, StatusDeleting}
  /\ disp.pc = "commit"
  /\ disp.lock = j.id
  /\ disp.status = j.status
  /\ ~(resource[j.id].present /\ resource[j.id].status = j.status)

\* C34: a worker never takes a job from the queue before the claim
\* transaction that pushed it has committed: when the job {id, status} is
\* dequeued the row has that status.
C34_DequeuedJobIsCommitted ==
  [][Len(jobs') < Len(jobs) => ~Unclaimed(Head(jobs))]_vars


\* ---- C35 -------------------------------------------------------------------
\* the statements of a job that wait for the lock of the job's Resource row
RowWrites == {"error", "s_reset", "s_total", "s_stored", "s_link", "s_status", "d_dec", "d_res"}

\* worker w waits for the row lock that the dispatcher holds, and the
\* watchdog of its job will not cancel the statement: it has made its check
\* or finds the committed status unchanged
WaitsForLock(w) ==
  /\ wk[w].pc \in RowWrites
  /\ ~wk[w].cancelled
  /\ wk[w].id = disp.lock
  /\ resource[wk[w].id].present
  /\ wk[w].wd = "spent" \/ resource[wk[w].id].status = wk[w].status

\* C35: the dispatcher and the workers never deadlock: in no reachable state
\* the dispatcher waits to send on the full channel while every worker
\* waits for the row lock the dispatcher holds.
C35_NoDeadlock ==
  ~(/\ disp.pc = "push" /\ Len(jobs) = JobsCap /\ ~closed
    /\ cfg.workers # {}
    /\ \A w \in cfg.workers : WaitsForLock(w))


\* ---- C36 -------------------------------------------------------------------
\* C36: of two PUT calls for an id that has no row, served at the same time,
\* both return the resource without error: every Insert of
\* ResourceQueueForStoring answers 202 with the row QueuedForStoring, which
\* is then in the table.
C36_BothPutsAccepted ==
  [][\A c \in Clients :
       (cl[c].pc = "put_insert" /\ cl'[c].pc = "respond") =>
         /\ cl'[c].http = StatusAccepted
         /\ cl'[c].ret.present /\ cl'[c].ret.status = StatusQueuedForStoring
         /\ resource'[cl[c].id].present
         /\ resource'[cl[c].id].status = StatusQueuedForStoring]_vars


\* ---- C37 -------------------------------------------------------------------
\* C37: generateFileHash returns a fingerprint only if every download and
\* every copy succeeded: when it returns the hash, no read has failed.
C37_HashOnlyOfCompleteReads ==
  hasher.pc = "done" => fails = cfg.fails

====
